---- MODULE Spec2Model ----
(***************************************************************************)
(* Verification model of the redox kernel core:                            *)
(*   - the per-CPU context scheduler   (src/src/context/switch.rs)         *)
(*   - the proc: scheme                (src/src/scheme/proc.rs)            *)
(* Every CPU is a flow of control; every context carries the position of   *)
(* the kernel code it executes, and advances only while it is the current  *)
(* context of a CPU that is not inside switch().                           *)
(***************************************************************************)
EXTENDS Integers, Sequences, FiniteSets, TLC

(***************************************************************************)
(* Bounds of the model.                                                    *)
(***************************************************************************)
NumCpus == 2
NumUsers == 3
(* the user contexts spawned when all CPUs are up *)
SmpUsers == 2
(* the last value of the monotonic clock *)
MaxNow == 1

(* tick(): "Switch after 3 ticks" *)
SwitchTicks == 3

Cpus == 0 .. (NumCpus - 1)
IdleOf(cpu) == cpu + 1
IdleIds == {IdleOf(cpu) : cpu \in Cpus}
UserIds == (NumCpus + 1) .. (NumCpus + NumUsers)
CtxIds == IdleIds \cup UserIds

VARIABLES
    contexts,             \* context::contexts(): id -> Context
    CONTEXT_SWITCH_LOCK,  \* arch::CONTEXT_SWITCH_LOCK
    context_id,           \* ContextSwitchPercpu.context_id, per CPU
    idle_id,              \* ContextSwitchPercpu.idle_id, per CPU
    pit_ticks,            \* ContextSwitchPercpu.pit_ticks, per CPU
    switch_result,        \* ContextSwitchPercpu.switch_result, per CPU: {} or {[prev, next]}
    cpu_pc,               \* where each CPU is inside switch(): run, spin, scan, commit, hook
    cand,                 \* per CPU: the candidates the loop of switch() has still to examine
    switch_time,          \* per CPU: the local switch_time of switch()
    switch_context_opt,   \* per CPU: the local switch_context_opt of switch()
    now,                  \* time::monotonic()
    handles,              \* ProcScheme.handles: id -> Info
    next_id,              \* ProcScheme.next_id
    op,                   \* per context: the kernel code it is executing
    access,               \* ProcScheme.access
    list,                 \* the SchemeList behind scheme::schemes()
    sessions,             \* the ptrace sessions: traced pid -> the clone events queued
    INPUT,                \* debug.rs INPUT: the bytes queued in the WaitQueue
    HANDLES,              \* debug.rs HANDLES: id -> Handle
    NEXT_ID,              \* debug.rs NEXT_ID
    ret                   \* the last call on the scheme list or of a pure function,
                          \* with its arguments and the value it returned

vars == <<contexts, CONTEXT_SWITCH_LOCK, context_id, idle_id, pit_ticks, switch_result,
          cpu_pc, cand, switch_time, switch_context_opt, now, handles, next_id, op, access, list, ret,
          sessions, INPUT, HANDLES, NEXT_ID>>

debug_vars == <<INPUT, HANDLES, NEXT_ID>>

list_vars == <<access, list, ret, debug_vars>>

scheme_vars == <<access, list, ret, sessions, debug_vars>>

kernel_vars == <<contexts, CONTEXT_SWITCH_LOCK, context_id, idle_id, pit_ticks,
                 switch_result, cpu_pc, cand, switch_time, switch_context_opt, now, handles, next_id,
                 op, access, sessions, debug_vars>>

proc_vars == <<handles, next_id, op>>

percpu_vars == <<context_id, idle_id, pit_ticks, switch_result, cpu_pc, cand, switch_time,
                 switch_context_opt>>

(***************************************************************************)
(* Context and Status (crate::context).                                    *)
(***************************************************************************)
is_runnable(status) == status = "Runnable"

is_soft_blocked(status) == status = "Blocked"

unblock_no_ipi(context) ==
    IF is_soft_blocked(context.status)
    THEN [context EXCEPT !.status = "Runnable"]
    ELSE context

NewContext(id) ==
    [ id |-> id,
      running |-> FALSE,
      ptrace_stop |-> FALSE,
      status |-> "Runnable",
      cpu_id |-> {},
      sched_affinity |-> Cpus,
      ksig_restore |-> FALSE,
      ksig |-> {},
      arch |-> {},
      pending |-> <<>>,
      wake |-> {},
      switch_time |-> 0,
      cpu_time |-> 0,
      name |-> 0,
      euid |-> 0,
      egid |-> 0,
      ppid |-> 0,
      files |-> id,
      actions |-> id,
      addr_space |-> id,
      iret |-> {},
      clone_entry |-> {} ]

(***************************************************************************)
(* update_runnable: the new state of the candidate and the returned bool.  *)
(***************************************************************************)
(* the restore that takes the saved frame and leaves the flag set *)
(* Context.arch is written as the signal whose handler the next entry of
   the context lands in, {} for the place where it was interrupted; the
   save of the registers by arch::switch_to is not part of these sources.
   Context.ksig is {} or holds the saved arch with the signal in flight;
   kfx and kstack are saved and put back with arch and are not written
   otherwise.  SavedArch is ksig.0, the arch a restore puts back. *)
SavedArch(context) ==
    IF context.ksig = {} THEN context.arch ELSE (CHOOSE k \in context.ksig : TRUE).arch

RestoreFromSignal_KeepFlag(context) ==
    IF context.ksig_restore
    THEN unblock_no_ipi([context EXCEPT !.ksig = {}, !.arch = SavedArch(context)])
    ELSE context

RestoreFromSignal(context) ==
    IF context.ksig_restore
    THEN unblock_no_ipi([context EXCEPT !.ksig = {}, !.arch = SavedArch(context),
                                        !.ksig_restore = FALSE])
    ELSE context

UnblockOnPending(context) ==
    IF is_soft_blocked(context.status) /\ context.pending # <<>>
    THEN unblock_no_ipi(context)
    ELSE context

(* the wake that does not compare the deadline with the clock *)
WakeFromSleep_NoDeadline(context, current) ==
    IF is_soft_blocked(context.status) /\ context.wake # {}
    THEN unblock_no_ipi([context EXCEPT !.wake = {}])
    ELSE context

WakeFromSleep(context, current) ==
    IF is_soft_blocked(context.status) /\ context.wake # {}
    THEN IF \E wake \in context.wake : current >= wake
         THEN unblock_no_ipi([context EXCEPT !.wake = {}])
         ELSE context
    ELSE context

(* the eligibility tests without the affinity test *)
Ineligible_NoAffinity(context, cpu) ==
    \/ context.running
    \/ context.ptrace_stop
    \/ ~(\A x \in context.cpu_id : x = cpu)

(* the eligibility tests without the ptrace_stop test *)
Ineligible_NoPtraceStop(context, cpu) ==
    \/ context.running
    \/ cpu \notin context.sched_affinity
    \/ ~(\A x \in context.cpu_id : x = cpu)

(* the eligibility tests without the pinning to the last CPU *)
Ineligible_NoPin(context, cpu) ==
    \/ context.running
    \/ context.ptrace_stop
    \/ cpu \notin context.sched_affinity

Ineligible(context, cpu) ==
    \/ context.running
    \/ context.ptrace_stop
    \/ cpu \notin context.sched_affinity
    \/ ~(\A x \in context.cpu_id : x = cpu)

(* update_runnable with its eligibility tests left out *)
update_runnable_NoEligibility(context, cpu, current) ==
    LET updated == WakeFromSleep(UnblockOnPending(RestoreFromSignal(context)), current)
    IN  [context |-> updated, ret |-> is_runnable(updated.status)]

update_runnable(context, cpu, current) ==
    IF Ineligible(context, cpu)
    THEN [context |-> context, ret |-> FALSE]
    ELSE LET updated == WakeFromSleep(UnblockOnPending(RestoreFromSignal(context)), current)
         IN  [context |-> updated, ret |-> is_runnable(updated.status)]

(***************************************************************************)
(* The order in which switch() examines the contexts.                      *)
(***************************************************************************)
RECURSIVE Ascending(_)
Ascending(S) ==
    IF S = {} THEN <<>>
    ELSE LET m == CHOOSE x \in S : \A y \in S : x <= y
         IN  <<m>> \o Ascending(S \ {m})

RECURSIVE SkipIdle(_, _, _)
SkipIdle(seq, idle, skip_idle) ==
    IF seq = <<>> THEN <<>>
    ELSE IF Head(seq) = idle /\ skip_idle
         THEN SkipIdle(Tail(seq), idle, FALSE)
         ELSE <<Head(seq)>> \o SkipIdle(Tail(seq), idle, skip_idle)

(* the traversal that takes the idle context where its id comes *)
Candidates_IdleInPlace(ids, prev, idle) ==
    Ascending({i \in ids : i > prev})
        \o Ascending({i \in ids : i < prev})
        \o Ascending({i \in ids : i = idle})

(* the traversal that starts below the current id *)
Candidates_BelowFirst(ids, prev, idle) ==
    SkipIdle(Ascending({i \in ids : i < prev})
                \o Ascending({i \in ids : i > prev})
                \o Ascending({i \in ids : i = idle}),
             idle, TRUE)

(* lines 153-172 *)
Candidates(ids, prev, idle) ==
    SkipIdle(Ascending({i \in ids : i > prev})
                \o Ascending({i \in ids : i < prev})
                \o Ascending({i \in ids : i = idle}),
             idle, TRUE)

(***************************************************************************)
(* Context locks.  switch() write-locks the previous context before the    *)
(* loop and keeps the guards of both contexts in switch_result until       *)
(* switch_finish_hook; every other holder takes and drops a lock within    *)
(* one step.                                                               *)
(***************************************************************************)
(* A context holds the write lock of id inside with_context_mut. *)
HeldByCall(id) == \E x \in DOMAIN op : op[x].pc = "locked" /\ op[x].lock = id

Locked(id) ==
    \/ \E cpu \in Cpus :
        \/ cpu_pc[cpu] \in {"scan", "commit"} /\ context_id[cpu] = id
        \/ \E o \in switch_context_opt[cpu] : id \in {o.prev, o.next}
        \/ \E r \in switch_result[cpu] : id \in {r.prev, r.next}
    \/ HeldByCall(id)

(* The context that executes on a CPU outside switch(). *)
Executing(id) ==
    \E cpu \in Cpus : cpu_pc[cpu] = "run" /\ context_id[cpu] = id

CpuOf(id) == CHOOSE cpu \in Cpus : context_id[cpu] = id

(***************************************************************************)
(* switch()                                                                *)
(***************************************************************************)
(* lines 122-125: entry, the tick counter is reset *)
SwitchEnter(cpu) ==
    /\ pit_ticks' = [pit_ticks EXCEPT ![cpu] = 0]
    /\ cpu_pc' = [cpu_pc EXCEPT ![cpu] = "spin"]

(* the flag is set without the compare-exchange having seen it false *)
SwitchAcquire_NoExchange(cpu) ==
    /\ UNCHANGED scheme_vars
    /\ cpu_pc[cpu] = "spin"
    /\ ~Locked(context_id[cpu])
    /\ CONTEXT_SWITCH_LOCK' = TRUE
    /\ cpu_pc' = [cpu_pc EXCEPT ![cpu] = "scan"]
    /\ cand' = [cand EXCEPT ![cpu] =
                    Candidates(DOMAIN contexts, context_id[cpu], idle_id[cpu])]
    /\ switch_time' = [switch_time EXCEPT ![cpu] = now]
    /\ UNCHANGED <<contexts, context_id, idle_id, pit_ticks, switch_result,
                   switch_context_opt, now, proc_vars>>

(* lines 129-147: the compare-exchange succeeds, the previous context is locked *)
SwitchAcquire(cpu) ==
    /\ UNCHANGED scheme_vars
    /\ cpu_pc[cpu] = "spin"
    /\ CONTEXT_SWITCH_LOCK = FALSE
    /\ ~Locked(context_id[cpu])
    /\ CONTEXT_SWITCH_LOCK' = TRUE
    /\ cpu_pc' = [cpu_pc EXCEPT ![cpu] = "scan"]
    /\ cand' = [cand EXCEPT ![cpu] =
                    Candidates(DOMAIN contexts, context_id[cpu], idle_id[cpu])]
    /\ switch_time' = [switch_time EXCEPT ![cpu] = now]
    /\ UNCHANGED <<contexts, context_id, idle_id, pit_ticks, switch_result,
                   switch_context_opt, now, proc_vars>>

(* lines 174-184: one candidate is locked and examined *)
SwitchExamine(cpu) ==
    /\ UNCHANGED scheme_vars
    /\ cpu_pc[cpu] = "scan"
    /\ cand[cpu] # <<>>
    /\ LET pid == Head(cand[cpu])
           res == update_runnable(contexts[pid], cpu, now)
       IN  /\ ~Locked(pid)
           /\ contexts' = [contexts EXCEPT ![pid] = res.context]
           /\ IF res.ret
              THEN /\ switch_context_opt' = [switch_context_opt EXCEPT ![cpu] =
                            {[prev |-> context_id[cpu], next |-> pid]}]
                   /\ cand' = [cand EXCEPT ![cpu] = <<>>]
                   /\ cpu_pc' = [cpu_pc EXCEPT ![cpu] = "commit"]
              ELSE /\ cand' = [cand EXCEPT ![cpu] = Tail(cand[cpu])]
                   /\ UNCHANGED <<switch_context_opt, cpu_pc>>
    /\ UNCHANGED <<CONTEXT_SWITCH_LOCK, context_id, idle_id, pit_ticks, switch_result,
                   switch_time, now, proc_vars>>

(* lines 210-220: a pending signal is delivered to the next context *)
signal_stack(sig) == {sig}

(* the delivery that does not look at the signal in flight *)
DeliverSignal_Nested(next_context) ==
    IF next_context.pending # <<>>
    THEN [next_context EXCEPT !.ksig = {[arch |-> next_context.arch,
                                         sig |-> Head(next_context.pending)]},
                              !.arch = signal_stack(Head(next_context.pending)),
                              !.pending = Tail(next_context.pending)]
    ELSE next_context

DeliverSignal(next_context) ==
    IF next_context.ksig = {} /\ next_context.pending # <<>>
    THEN [next_context EXCEPT !.ksig = {[arch |-> next_context.arch,
                                         sig |-> Head(next_context.pending)]},
                              !.arch = signal_stack(Head(next_context.pending)),
                              !.pending = Tail(next_context.pending)]
    ELSE next_context

saturating_sub(a, b) == IF a >= b THEN a - b ELSE 0

(* the commit that leaves the previous context marked running *)
CommitPrev_StillRunning(prev_context, at) ==
    [prev_context EXCEPT !.cpu_time = @ + saturating_sub(at, prev_context.switch_time)]

(* lines 193-194 *)
CommitPrev(prev_context, at) ==
    [prev_context EXCEPT !.running = FALSE,
                         !.cpu_time = @ + saturating_sub(at, prev_context.switch_time)]

CommitNext(next_context, cpu, at) ==
    DeliverSignal([next_context EXCEPT !.running = TRUE, !.cpu_id = {cpu},
                                       !.switch_time = at])

(* the commit without the store of the next id into the per-CPU block *)
SwitchCommit_NoContextId(cpu) ==
    /\ UNCHANGED scheme_vars
    /\ cpu_pc[cpu] = "commit"
    /\ \E o \in switch_context_opt[cpu] :
        /\ contexts' = [contexts EXCEPT ![o.prev] = CommitPrev(@, switch_time[cpu]),
                                        ![o.next] = CommitNext(@, cpu, switch_time[cpu])]
        /\ switch_result' = [switch_result EXCEPT ![cpu] = {o}]
    /\ switch_context_opt' = [switch_context_opt EXCEPT ![cpu] = {}]
    /\ cpu_pc' = [cpu_pc EXCEPT ![cpu] = "hook"]
    /\ UNCHANGED <<CONTEXT_SWITCH_LOCK, context_id, idle_id, pit_ticks, cand, switch_time, now,
                   proc_vars>>

(* the commit that drops both guards instead of storing them *)
SwitchCommit_DropGuards(cpu) ==
    /\ UNCHANGED scheme_vars
    /\ cpu_pc[cpu] = "commit"
    /\ \E o \in switch_context_opt[cpu] :
        /\ contexts' = [contexts EXCEPT ![o.prev] = CommitPrev(@, switch_time[cpu]),
                                        ![o.next] = CommitNext(@, cpu, switch_time[cpu])]
        /\ context_id' = [context_id EXCEPT ![cpu] = contexts[o.next].id]
    /\ switch_context_opt' = [switch_context_opt EXCEPT ![cpu] = {}]
    /\ cpu_pc' = [cpu_pc EXCEPT ![cpu] = "hook"]
    /\ UNCHANGED <<CONTEXT_SWITCH_LOCK, idle_id, pit_ticks, cand, switch_time, now, proc_vars,
                   switch_result>>

(* lines 189-236: both contexts are updated, the guards are stored, the
   registers are swapped *)
SwitchCommit(cpu) ==
    /\ UNCHANGED scheme_vars
    /\ cpu_pc[cpu] = "commit"
    /\ \E o \in switch_context_opt[cpu] :
        /\ contexts' = [contexts EXCEPT ![o.prev] = CommitPrev(@, switch_time[cpu]),
                                        ![o.next] = CommitNext(@, cpu, switch_time[cpu])]
        /\ context_id' = [context_id EXCEPT ![cpu] = contexts[o.next].id]
        /\ switch_result' = [switch_result EXCEPT ![cpu] = {o}]
    /\ switch_context_opt' = [switch_context_opt EXCEPT ![cpu] = {}]
    /\ cpu_pc' = [cpu_pc EXCEPT ![cpu] = "hook"]
    /\ UNCHANGED <<CONTEXT_SWITCH_LOCK, idle_id, pit_ticks, cand, switch_time, now, proc_vars>>

(* lines 106-114: on the new stack the guards are dropped and the flag is
   released; switch() returns true *)
switch_finish_hook(cpu) ==
    /\ UNCHANGED scheme_vars
    /\ cpu_pc[cpu] = "hook"
    /\ switch_result[cpu] # {}
    /\ switch_result' = [switch_result EXCEPT ![cpu] = {}]
    /\ CONTEXT_SWITCH_LOCK' = FALSE
    /\ cpu_pc' = [cpu_pc EXCEPT ![cpu] = "run"]
    /\ UNCHANGED <<contexts, context_id, idle_id, pit_ticks, cand, switch_time, switch_context_opt,
                   now, proc_vars>>

(* the no-candidate return that accounts the previous context as switched
   out *)
SwitchNoCandidate_Accounts(cpu) ==
    /\ UNCHANGED scheme_vars
    /\ cpu_pc[cpu] = "scan"
    /\ cand[cpu] = <<>>
    /\ contexts' = [contexts EXCEPT ![context_id[cpu]] = CommitPrev(@, switch_time[cpu])]
    /\ CONTEXT_SWITCH_LOCK' = FALSE
    /\ cpu_pc' = [cpu_pc EXCEPT ![cpu] = "run"]
    /\ UNCHANGED <<context_id, idle_id, pit_ticks, switch_result, cand, switch_time,
                   switch_context_opt, now, proc_vars>>

(* the no-candidate return without the store of false *)
SwitchNoCandidate_NoRelease(cpu) ==
    /\ UNCHANGED scheme_vars
    /\ cpu_pc[cpu] = "scan"
    /\ cand[cpu] = <<>>
    /\ cpu_pc' = [cpu_pc EXCEPT ![cpu] = "run"]
    /\ UNCHANGED <<contexts, CONTEXT_SWITCH_LOCK, context_id, idle_id, pit_ticks,
                   switch_result, cand, switch_time, switch_context_opt, now, proc_vars>>

(* lines 243-248: no candidate passed; the flag is released, switch()
   returns false *)
SwitchNoCandidate(cpu) ==
    /\ UNCHANGED scheme_vars
    /\ cpu_pc[cpu] = "scan"
    /\ cand[cpu] = <<>>
    /\ CONTEXT_SWITCH_LOCK' = FALSE
    /\ cpu_pc' = [cpu_pc EXCEPT ![cpu] = "run"]
    /\ UNCHANGED <<contexts, context_id, idle_id, pit_ticks, switch_result, cand, switch_time,
                   switch_context_opt, now, proc_vars>>

(***************************************************************************)
(* tick(): the timer interrupt of one CPU.                                 *)
(***************************************************************************)
(* tick() that switches on every call *)
tick_EveryTick(cpu) ==
    /\ UNCHANGED scheme_vars
    /\ cpu_pc[cpu] = "run"
    /\ SwitchEnter(cpu)
    /\ UNCHANGED <<contexts, CONTEXT_SWITCH_LOCK, context_id, idle_id, switch_result,
                   cand, switch_time, switch_context_opt, now, proc_vars>>

tick(cpu) ==
    /\ UNCHANGED scheme_vars
    /\ cpu_pc[cpu] = "run"
    /\ LET new_ticks == pit_ticks[cpu] + 1
       IN  IF new_ticks >= SwitchTicks
           THEN SwitchEnter(cpu)
           ELSE /\ pit_ticks' = [pit_ticks EXCEPT ![cpu] = new_ticks]
                /\ UNCHANGED cpu_pc
    /\ UNCHANGED <<contexts, CONTEXT_SWITCH_LOCK, context_id, idle_id, switch_result,
                   cand, switch_time, switch_context_opt, now, proc_vars>>

(***************************************************************************)
(* proc: scheme.  A context makes a call while it executes in user mode    *)
(* (op.pc = "user"); the result of a finished call is in op.res until the  *)
(* context is back in user mode.                                           *)
(***************************************************************************)
MaxHandles == 3
HandleIds == 0 .. (MaxHandles - 1)
Names == {0, 1}

(* Info.flags is the set of the open flags that are set. *)
Info(pid, flags, operation) == [pid |-> pid, flags |-> flags, operation |-> operation]

InUser(x) == Executing(x) /\ op[x].pc = "user"

(* ProcScheme.handles is a spinning read/write lock.  kread on a trace
   handle keeps its write guard (line 736) over ptrace::wait (line 742);
   every other holder takes and drops it within one step. *)
HandlesHeld == \E y \in DOMAIN op : op[y].pc \in {"trace_wait", "trace_sleep"}

(* The caller of name(id) takes self.handles: at the start of the call, or
   after it has spun on the lock. *)
AtHandles(x, name, id) ==
    /\ Executing(x)
    /\ ~HandlesHeld
    /\ \/ op[x].pc = "user"
       \/ op[x].pc = "handles" /\ op[x].call = name /\ op[x].id = id

Return(x, res) == op' = [op EXCEPT ![x] = [pc |-> "ret", res |-> res]]

(* with_context, with_context_mut (lines 42-65): the error both return
   before the callback runs *)
with_context(pid) ==
    IF pid \notin DOMAIN contexts THEN "ESRCH"
    ELSE IF contexts[pid].status = "Exited" THEN "ESRCH"
    ELSE "OK"

with_context_mut(pid) == with_context(pid)

(* A context lock can be taken: the context is absent or not locked. *)
Lockable(pid) == pid \in DOMAIN contexts => ~Locked(pid)

(* try_stop_context, lines 70-79; arc is what the callback of the caller
   has captured, ctxs the context table the caller has left *)
TryStopBeginOn(ctxs, x, pid, call, arc) ==
    IF pid = x
    THEN /\ Return(x, "EBADF")
         /\ contexts' = ctxs
    ELSE /\ Lockable(pid)
         /\ IF with_context_mut(pid) # "OK"
            THEN /\ Return(x, with_context_mut(pid))
                 /\ contexts' = ctxs
            ELSE /\ contexts' = [ctxs EXCEPT ![pid].ptrace_stop = TRUE]
                 /\ op' = [op EXCEPT ![x] =
                        [pc |-> IF contexts[pid].running THEN "ts_switch" ELSE "ts_final",
                         pid |-> pid,
                         was_stopped |-> contexts[pid].ptrace_stop,
                         call |-> call,
                         arc |-> arc]]

(* try_stop_context called on the context table as it is *)
TryStopBeginWith(x, pid, call, arc) == TryStopBeginOn(contexts, x, pid, call, arc)

(* try_stop_context with a callback that captures no reference *)
TryStopBegin(x, pid, call) == TryStopBeginWith(x, pid, call, 0)

(* try_stop_context, line 83: the waiting caller yields its CPU *)
TryStopSwitch(x) ==
    /\ UNCHANGED scheme_vars
    /\ Executing(x)
    /\ op[x].pc = "ts_switch"
    /\ SwitchEnter(CpuOf(x))
    /\ op' = [op EXCEPT ![x].pc = "ts_check"]
    /\ UNCHANGED <<contexts, CONTEXT_SWITCH_LOCK, context_id, idle_id, switch_result,
                   cand, switch_time, switch_context_opt, now, handles, next_id>>

(* try_stop_context, lines 85-87 *)
TryStopCheck(x) ==
    /\ UNCHANGED scheme_vars
    /\ Executing(x)
    /\ op[x].pc = "ts_check"
    /\ Lockable(op[x].pid)
    /\ IF with_context(op[x].pid) # "OK"
       THEN Return(x, with_context(op[x].pid))
       ELSE op' = [op EXCEPT ![x].pc =
                        IF contexts[op[x].pid].running THEN "ts_switch" ELSE "ts_final"]
    /\ UNCHANGED <<contexts, CONTEXT_SWITCH_LOCK, percpu_vars, now, handles, next_id>>

(* The callbacks handed to try_stop_context fail with ENOTRECOVERABLE when
   the target has no saved user registers (ptrace::regs_for is None). *)
Callback(has_regs) == IF has_regs THEN "OK" ELSE "ENOTRECOVERABLE"

(* the callback that rewrites the entry point and leaves the address space *)
SwitchAddrSpace_KeepSpace(context, awaiting, has_regs) ==
    IF has_regs
    THEN [context EXCEPT !.iret = {[ip |-> awaiting.new_ip, sp |-> awaiting.new_sp]}]
    ELSE [context EXCEPT !.clone_entry = {<<awaiting.new_ip, awaiting.new_sp>>}]

(* close, lines 567-591: the callback for AwaitingAddrSpaceChange; has_regs
   tells whether the context has saved user registers (ptrace::regs_for_mut
   is Some) *)
SwitchAddrSpace(context, awaiting, has_regs) ==
    IF has_regs
    THEN [context EXCEPT !.iret = {[ip |-> awaiting.new_ip, sp |-> awaiting.new_sp]},
                         !.addr_space = awaiting.new]
    ELSE [context EXCEPT !.clone_entry = {<<awaiting.new_ip, awaiting.new_sp>>},
                         !.addr_space = awaiting.new]

(* try_stop_context, lines 90-98; the caller of try_stop_context goes on.
   A failed assertion panics: the CPU halts. *)
TryStopFinish(x) ==
    /\ UNCHANGED scheme_vars
    /\ Executing(x)
    /\ op[x].pc = "ts_final"
    /\ Lockable(op[x].pid)
    /\ IF with_context_mut(op[x].pid) # "OK"
       THEN /\ Return(x, with_context_mut(op[x].pid))
            /\ UNCHANGED <<contexts, cpu_pc>>
       ELSE IF contexts[op[x].pid].running
       THEN /\ op' = [op EXCEPT ![x] = [pc |-> "panic"]]
            /\ cpu_pc' = [cpu_pc EXCEPT ![CpuOf(x)] = "halt"]
            /\ UNCHANGED contexts
       ELSE IF op[x].call = "AwaitingAddrSpaceChange"
       THEN \* the callback of close, lines 567-591, cannot fail
            /\ \E has_regs \in BOOLEAN :
                  contexts' = [contexts EXCEPT ![op[x].pid] =
                                  [SwitchAddrSpace(@, op[x].arc, has_regs)
                                      EXCEPT !.ptrace_stop = op[x].was_stopped]]
            /\ op' = [op EXCEPT ![x] = [pc |-> "ret", res |-> "OK",
                                        call |-> [name |-> "close", pid |-> op[x].pid,
                                                  awaiting |-> op[x].arc]]]
            /\ UNCHANGED cpu_pc
       ELSE /\ contexts' = [contexts EXCEPT ![op[x].pid].ptrace_stop = op[x].was_stopped]
            /\ \E has_regs \in BOOLEAN :
                  IF op[x].call = "Trace" /\ Callback(has_regs) = "OK"
                  THEN op' = [op EXCEPT ![x] = [pc |-> "trace_resume", pid |-> op[x].pid]]
                  ELSE Return(x, Callback(has_regs))
            /\ UNCHANGED cpu_pc
    /\ UNCHANGED <<CONTEXT_SWITCH_LOCK, context_id, idle_id, pit_ticks, switch_result, cand, switch_time,
                   switch_context_opt, now, handles, next_id>>

(* kwrite, Operation::Trace, lines 967-979: the tracee is resumed *)
TraceResumeOn(ctxs, x, pid) ==
    /\ Lockable(pid)
    /\ IF with_context_mut(pid) # "OK"
       THEN /\ Return(x, with_context_mut(pid))
            /\ contexts' = ctxs
       ELSE /\ contexts' = [ctxs EXCEPT ![pid].ptrace_stop = FALSE]
            /\ Return(x, "OK")

TraceResume(x, pid) == TraceResumeOn(contexts, x, pid)

KWriteTraceResume(x) ==
    /\ UNCHANGED scheme_vars
    /\ Executing(x)
    /\ op[x].pc = "trace_resume"
    /\ TraceResume(x, op[x].pid)
    /\ UNCHANGED <<CONTEXT_SWITCH_LOCK, percpu_vars, now, handles, next_id>>

(* the operations kread has no arm for *)
NotReadable == {"AddrSpace", "Sigactions", "OpenViaDup", "CurrentFiletable", "CurrentSigactions",
                "CurrentAddrSpace", "AwaitingFiletableChange", "AwaitingSigactionsChange",
                "AwaitingAddrSpaceChange"}

(* PtraceEvent buffers of kread, line 748: at most 4 events are read *)
MaxEvents == 4

(* kread, lines 677-853 *)
(* The sched-affinity interface (proc.rs 834-846 and 1048-1060).  A
   LogicalCpuSet is the set of the logical CPUs it allows; u32 has HalfBits
   bits and usize twice as many. *)
HalfBits == 2
U32_MAX == 2 ^ HalfBits - 1
USIZE_MAX == 2 ^ (2 * HalfBits) - 1
cpu_count == NumCpus
LogicalCpuSet_empty == {}
LogicalCpuSet_all == Cpus
LogicalCpuSet_single(id) == {id}
trailing_zeros(set) == CHOOSE id \in set : \A other \in set : id <= other

(* kread, lines 838-842: the id a read reports for the set. *)
AffinityId(set) ==
    IF set = LogicalCpuSet_empty THEN USIZE_MAX ELSE trailing_zeros(set)

(* kwrite, lines 1054-1058: the set a write of val stores, val a u32. *)
AffinitySet(val) ==
    IF val = U32_MAX THEN LogicalCpuSet_all
    ELSE LogicalCpuSet_single(val % cpu_count)

kread(x, id) ==
    /\ UNCHANGED list_vars
    /\ AtHandles(x, "kread", id)
    /\ IF id \notin DOMAIN handles
       THEN /\ Return(x, "EBADF")
            /\ UNCHANGED <<contexts, handles, sessions>>
       ELSE LET info == handles[id] IN
            CASE info.operation = "Regs(Int)" ->
                    /\ TryStopBegin(x, info.pid, info.operation)
                    /\ UNCHANGED <<handles, sessions>>
              [] info.operation = "Regs(Float)" ->
                    /\ Lockable(info.pid)
                    /\ Return(x, with_context(info.pid))
                    /\ UNCHANGED <<contexts, handles, sessions>>
              [] info.operation = "Trace" ->
                    \* lines 735-779; a read without O_NONBLOCK waits in ptrace::wait
                    /\ "O_NONBLOCK" \in info.flags
                    /\ Lockable(info.pid)
                    /\ IF with_context(info.pid) # "OK"
                       THEN /\ Return(x, with_context(info.pid))
                            /\ UNCHANGED <<handles, sessions>>
                       ELSE IF info.pid \notin DOMAIN sessions
                       THEN /\ Return(x, "ENODEV")
                            /\ UNCHANGED <<handles, sessions>>
                       ELSE LET queued == sessions[info.pid]
                                read == IF Len(queued) < MaxEvents THEN Len(queued)
                                        ELSE MaxEvents
                            IN  /\ sessions' = [sessions EXCEPT ![info.pid] =
                                                   SubSeq(queued, read + 1, Len(queued))]
                                /\ handles' = [handles EXCEPT ![id].clones =
                                                   @ \cup {queued[i] : i \in 1 .. read}]
                                /\ \E events \in BOOLEAN :
                                      Return(x, IF events \/ read > 0 THEN "OK" ELSE "EAGAIN")
                    /\ UNCHANGED contexts
              [] info.operation = "Name" ->
                    \* line 813
                    /\ Lockable(info.pid)
                    /\ Return(x, IF info.pid \in DOMAIN contexts THEN "OK" ELSE "ESRCH")
                    /\ UNCHANGED <<contexts, handles, sessions>>
              [] info.operation = "Filetable" ->
                    \* lines 823-829: the list made at open is read
                    /\ Return(x, "OK")
                    /\ UNCHANGED <<contexts, handles, sessions>>
              [] info.operation = "SchedAffinity" ->
                    \* lines 834-846
                    /\ Lockable(info.pid)
                    /\ IF info.pid \notin DOMAIN contexts
                       THEN Return(x, "EBADFD")
                       ELSE op' = [op EXCEPT ![x] =
                                     [pc |-> "ret", res |-> "OK",
                                      call |-> [name |-> "kread", id |-> id],
                                      buf |-> <<AffinityId(contexts[info.pid].sched_affinity)>>]]
                    /\ UNCHANGED <<contexts, handles, sessions>>
              [] info.operation \in NotReadable ->
                    \* line 851
                    /\ Return(x, "EBADF")
                    /\ UNCHANGED <<contexts, handles, sessions>>
    /\ UNCHANGED <<CONTEXT_SWITCH_LOCK, percpu_vars, now, next_id>>

(* Handle::continue_ignored_children, lines 209-223: the clones a trace
   handle has read of, and that no session traces, may run *)
Ignored(info) ==
    IF info.operation = "Trace"
    THEN {pid \in info.clones : pid \notin DOMAIN sessions /\ pid \in DOMAIN contexts}
    ELSE {}

(* continue_ignored_children without the is_traced test *)
continue_ignored_children_All(ctxs, info) ==
    [pid \in DOMAIN ctxs |->
        IF info.operation = "Trace" /\ pid \in info.clones
        THEN [ctxs[pid] EXCEPT !.ptrace_stop = FALSE]
        ELSE ctxs[pid]]

(* lines 209-223 *)
continue_ignored_children(ctxs, info) ==
    [pid \in DOMAIN ctxs |->
        IF pid \in Ignored(info) THEN [ctxs[pid] EXCEPT !.ptrace_stop = FALSE] ELSE ctxs[pid]]

(* the operations kwrite refuses: Filetable (line 1009) and those it has
   no arm for (line 1062) *)
NotWritable == {"AddrSpace", "Filetable", "Sigactions", "OpenViaDup", "AwaitingFiletableChange",
                "AwaitingSigactionsChange", "AwaitingAddrSpaceChange"}

(* the variant that stays where a change had to be stored *)
Awaiting_Same(operation) == operation

(* lines 1017, 1029 and 1038: the variant a write stores in a current-*
   handle *)
Awaiting(operation) ==
    CASE operation = "CurrentFiletable" -> "AwaitingFiletableChange"
      [] operation = "CurrentAddrSpace" -> "AwaitingAddrSpaceChange"
      [] operation = "CurrentSigactions" -> "AwaitingSigactionsChange"

(* the variant whose reference a current-* handle takes *)
Resource(operation) ==
    CASE operation = "CurrentFiletable" -> "Filetable"
      [] operation = "CurrentAddrSpace" -> "AddrSpace"
      [] operation = "CurrentSigactions" -> "Sigactions"

(* as_addrspace, as_filetable, as_sigactions (lines 621-641) on the handle the file
   descriptor of the buffer names: {} for EBADF *)
AsResource(number, operation) ==
    IF number \in DOMAIN handles /\ handles[number].operation = Resource(operation)
    THEN {handles[number].arc}
    ELSE {}

(* kwrite, lines 854-1064; buf is the sequence of the words of the buffer:
   the new name for Name, the file descriptor of a handle of this scheme
   for current-filetable and current-sigactions, the file descriptor, sp
   and ip for current-addrspace *)
kwrite(x, id, singlestep, buf) ==
    /\ UNCHANGED scheme_vars
    /\ AtHandles(x, "kwrite", id)
    /\ IF id \notin DOMAIN handles
       THEN /\ Return(x, "EBADF")
            /\ UNCHANGED <<contexts, handles>>
       ELSE LET info == handles[id] IN
            CASE info.operation = "Regs(Int)" ->
                    /\ TryStopBegin(x, info.pid, info.operation)
                    /\ UNCHANGED handles
              [] info.operation = "Regs(Float)" ->
                    /\ Lockable(info.pid)
                    /\ Return(x, with_context_mut(info.pid))
                    /\ UNCHANGED <<contexts, handles>>
              [] info.operation = "Trace" ->
                    \* lines 856-861: the clones the handle has read of are
                    \* continued and its list is drained; then lines 939-979
                    /\ \A pid \in Ignored(info) : ~Locked(pid)
                    /\ LET continued == continue_ignored_children(contexts, info)
                       IN  IF singlestep
                           THEN TryStopBeginOn(continued, x, info.pid, info.operation, 0)
                           ELSE TraceResumeOn(continued, x, info.pid)
                    /\ handles' = [handles EXCEPT ![id].clones = {}]
              [] info.operation = "Name" ->
                    \* lines 981-989
                    /\ Lockable(info.pid)
                    /\ IF info.pid \in DOMAIN contexts
                       THEN /\ contexts' = [contexts EXCEPT ![info.pid].name = buf[1]]
                            /\ Return(x, "OK")
                       ELSE /\ Return(x, "ESRCH")
                            /\ UNCHANGED contexts
                    /\ UNCHANGED handles
              [] info.operation \in {"CurrentFiletable", "CurrentSigactions"} ->
                    \* lines 1011-1019 and 1034-1040
                    /\ IF AsResource(buf[1], info.operation) = {}
                       THEN /\ Return(x, "EBADF")
                            /\ UNCHANGED handles
                       ELSE /\ handles' = [handles EXCEPT ![id] =
                                   [pid |-> info.pid, flags |-> info.flags,
                                    operation |-> Awaiting(info.operation),
                                    arc |-> CHOOSE arc \in
                                                AsResource(buf[1], info.operation) : TRUE]]
                            /\ Return(x, "OK")
                    /\ UNCHANGED contexts
              [] info.operation = "CurrentAddrSpace" ->
                    \* lines 1021-1032
                    /\ IF Len(buf) < 3
                       THEN /\ Return(x, "EINVAL")
                            /\ UNCHANGED handles
                       ELSE IF AsResource(buf[1], info.operation) = {}
                       THEN /\ Return(x, "EBADF")
                            /\ UNCHANGED handles
                       ELSE /\ handles' = [handles EXCEPT ![id] =
                                   [pid |-> info.pid, flags |-> info.flags,
                                    operation |-> Awaiting(info.operation),
                                    arc |-> CHOOSE arc \in
                                                AsResource(buf[1], info.operation) : TRUE,
                                    new_sp |-> buf[2],
                                    new_ip |-> buf[3]]]
                            /\ op' = [op EXCEPT ![x] =
                                        [pc |-> "ret", res |-> "OK",
                                         call |-> [name |-> "kwrite", id |-> id,
                                                   buf |-> buf]]]
                    /\ UNCHANGED contexts
              [] info.operation = "SchedAffinity" ->
                    \* lines 1048-1060
                    /\ Lockable(info.pid)
                    /\ IF Len(buf) < 1 \/ buf[1] > U32_MAX
                       THEN /\ Return(x, "EINVAL")
                            /\ UNCHANGED contexts
                       ELSE IF info.pid \notin DOMAIN contexts
                       THEN /\ Return(x, "EBADFD")
                            /\ UNCHANGED contexts
                       ELSE /\ contexts' = [contexts EXCEPT ![info.pid].sched_affinity =
                                               AffinitySet(buf[1])]
                            /\ op' = [op EXCEPT ![x] =
                                        [pc |-> "ret", res |-> "OK",
                                         call |-> [name |-> "kwrite", id |-> id,
                                                   buf |-> buf]]]
                    /\ UNCHANGED handles
              [] info.operation \in NotWritable ->
                    /\ Return(x, "EBADF")
                    /\ UNCHANGED <<contexts, handles>>
    /\ UNCHANGED <<CONTEXT_SWITCH_LOCK, percpu_vars, now, next_id>>

(* fcntl, lines 535-545 *)
fcntl(x, id, cmd, arg) ==
    /\ AtHandles(x, "fcntl", id)
    /\ IF id \notin DOMAIN handles
       THEN /\ Return(x, "EBADF")
            /\ UNCHANGED handles
       ELSE CASE cmd = "F_SETFL" ->
                    /\ handles' = [handles EXCEPT ![id].flags = arg]
                    /\ Return(x, "OK")
              [] cmd = "F_GETFL" ->
                    /\ Return(x, "OK")
                    /\ UNCHANGED handles
              [] OTHER ->
                    /\ Return(x, "EINVAL")
                    /\ UNCHANGED handles
    /\ UNCHANGED <<contexts, CONTEXT_SWITCH_LOCK, percpu_vars, now, next_id, scheme_vars>>

SIGKILL == 9

(* syscall::kill(pid, SIGKILL) as close calls it: the values it can return *)
KillResults(pid) == IF pid \in DOMAIN contexts THEN {"OK", "EPERM"} ELSE {"ESRCH"}

(* close, Operation::Trace, lines 604-616, after the session is closed:
   the contexts it leaves and the value it returns, given what kill returns *)
CloseTrace(ctxs, info, kill_res) ==
    IF "O_EXCL" \in info.flags /\ kill_res # "OK"
    THEN [contexts |-> ctxs, res |-> kill_res]
    ELSE LET killed == IF "O_EXCL" \in info.flags
                       THEN [ctxs EXCEPT ![info.pid].pending = Append(@, SIGKILL)]
                       ELSE ctxs
         IN  [contexts |-> IF info.pid \in DOMAIN killed
                           THEN [killed EXCEPT ![info.pid].ptrace_stop = FALSE]
                           ELSE killed,
              res |-> "OK"]

(* close, lines 559-620 *)
close(x, id) ==
    /\ UNCHANGED list_vars
    /\ AtHandles(x, "close", id)
    /\ IF id \notin DOMAIN handles
       THEN /\ Return(x, "EBADF")
            /\ UNCHANGED <<contexts, handles, sessions>>
       ELSE LET info == handles[id] IN
            /\ handles' = [h \in DOMAIN handles \ {id} |-> handles[h]]
            /\ IF info.operation = "Trace"
               THEN /\ \A pid \in Ignored(info) : ~Locked(pid)
                    /\ Lockable(info.pid)
                    /\ sessions' = [pid \in DOMAIN sessions \ {info.pid} |-> sessions[pid]]
                    /\ \E kill_res \in KillResults(info.pid) :
                          LET closed == CloseTrace(continue_ignored_children(contexts, info),
                                                   info, kill_res)
                          IN  /\ contexts' = closed.contexts
                              /\ Return(x, closed.res)
               ELSE IF info.operation = "AwaitingAddrSpaceChange"
               THEN \* lines 563-592: with_context_mut for the caller itself,
                    \* try_stop_context for another context
                    LET awaiting == [new |-> info.arc, new_sp |-> info.new_sp,
                                     new_ip |-> info.new_ip]
                    IN  /\ UNCHANGED sessions
                        /\ IF info.pid = x
                           THEN /\ Lockable(info.pid)
                                /\ op' = [op EXCEPT ![x] =
                                            [pc |-> "ret", res |-> with_context_mut(info.pid),
                                             call |-> [name |-> "close", pid |-> info.pid,
                                                       awaiting |-> awaiting]]]
                                /\ IF with_context_mut(info.pid) # "OK"
                                   THEN UNCHANGED contexts
                                   ELSE \E has_regs \in BOOLEAN :
                                           contexts' = [contexts EXCEPT ![info.pid] =
                                                   SwitchAddrSpace(@, awaiting, has_regs)]
                           ELSE TryStopBeginWith(x, info.pid, info.operation, awaiting)
               ELSE IF info.operation \in {"AwaitingFiletableChange",
                                           "AwaitingSigactionsChange"}
               THEN \* lines 596-603
                    /\ Lockable(info.pid)
                    /\ Return(x, with_context_mut(info.pid))
                    /\ IF with_context_mut(info.pid) # "OK"
                       THEN UNCHANGED contexts
                       ELSE contexts' =
                               IF info.operation = "AwaitingFiletableChange"
                               THEN [contexts EXCEPT ![info.pid].files = info.arc]
                               ELSE [contexts EXCEPT ![info.pid].actions = info.arc]
                    /\ UNCHANGED sessions
               ELSE /\ Return(x, "OK")
                    /\ UNCHANGED <<contexts, sessions>>
    /\ UNCHANGED <<CONTEXT_SWITCH_LOCK, percpu_vars, now, next_id>>

(* The finished call returns to user mode. *)
SysReturn(x) ==
    /\ UNCHANGED scheme_vars
    /\ Executing(x)
    /\ op[x].pc = "ret"
    /\ op' = [op EXCEPT ![x] = [pc |-> "user"]]
    /\ UNCHANGED <<contexts, CONTEXT_SWITCH_LOCK, percpu_vars, now, handles, next_id>>

(* A context exits: it writes Exited into its status and gives up its CPU. *)
exit(x) ==
    /\ UNCHANGED scheme_vars
    /\ InUser(x)
    /\ contexts' = [contexts EXCEPT ![x].status = "Exited"]
    /\ op' = [op EXCEPT ![x] = [pc |-> "dead"]]
    /\ SwitchEnter(CpuOf(x))
    /\ UNCHANGED <<CONTEXT_SWITCH_LOCK, context_id, idle_id, switch_result,
                   cand, switch_time, switch_context_opt, now, handles, next_id>>

(***************************************************************************)
(* proc: scheme, open and dup.  A handle that holds a reference to a file  *)
(* table, an address space or signal actions keeps it in the field arc.    *)
(***************************************************************************)
(* the handles one behaviour opens *)
MaxOpens == 2

(* lines 269-289: the Operation a path names, {} when it names none *)
ParseOperation(operation_str) ==
    CASE operation_str = "addrspace" -> {"AddrSpace"}
      [] operation_str = "filetable" -> {"Filetable"}
      [] operation_str = "current-addrspace" -> {"CurrentAddrSpace"}
      [] operation_str = "current-filetable" -> {"CurrentFiletable"}
      [] operation_str = "regs/float" -> {"Regs(Float)"}
      [] operation_str = "regs/int" -> {"Regs(Int)"}
      [] operation_str = "trace" -> {"Trace"}
      [] operation_str = "name" -> {"Name"}
      [] operation_str = "uid" -> {"Attr(Uid)"}
      [] operation_str = "gid" -> {"Attr(Gid)"}
      [] operation_str = "open_via_dup" -> {"OpenViaDup"}
      [] operation_str = "sigactions" -> {"Sigactions"}
      [] operation_str = "current-sigactions" -> {"CurrentSigactions"}
      [] OTHER -> {}

(* lines 150-152 *)
needs_child_process(operation) ==
    operation \in {"Regs(Int)", "Regs(Float)", "Trace", "Filetable", "AddrSpace",
                   "CurrentAddrSpace", "CurrentFiletable", "Sigactions",
                   "CurrentSigactions", "AwaitingSigactionsChange"}

(* lines 153-155 *)
needs_root(operation) == operation \in {"Attr(Uid)", "Attr(Gid)"}

(* the operations whose handle holds a reference taken from the target *)
HoldsArc(operation) == operation \in {"AddrSpace", "Filetable", "Sigactions"}

ArcOf(context, operation) ==
    CASE operation = "AddrSpace" -> context.addr_space
      [] operation = "Filetable" -> context.files
      [] operation = "Sigactions" -> context.actions

(* contexts.ancestors(id): id, its parent, the parent of that, ... as long
   as they are in the list *)
RECURSIVE ancestors(_, _, _)
ancestors(ctxs, id, seen) ==
    IF id \notin DOMAIN ctxs \/ id \in seen THEN {}
    ELSE {id} \cup ancestors(ctxs, ctxs[id].ppid, seen \cup {id})

(* ptrace::try_new_session succeeds when the target has no session.  A
   session is made by the open of a trace handle and ended by its close. *)
HasSession(pid) == pid \in DOMAIN sessions

(* the check that asks for an owner and not for an ancestor *)
CheckSecurity_OwnerOnly(ctxs, current, target, operation, uid, gid) ==
    IF needs_child_process(operation) /\ uid # 0 /\ gid # 0
    THEN IF target.id # current /\ uid # target.euid /\ gid # target.egid
         THEN "EPERM"
         ELSE "OK"
    ELSE IF needs_root(operation) /\ (uid # 0 \/ gid # 0)
         THEN "EPERM"
         ELSE "OK"

(* lines 312-338: "Unless root, check security" *)
CheckSecurity(ctxs, current, target, operation, uid, gid) ==
    IF needs_child_process(operation) /\ uid # 0 /\ gid # 0
    THEN IF target.id # current
         THEN IF uid # target.euid /\ gid # target.egid
              THEN "EPERM"
              ELSE IF current \in ancestors(ctxs, target.ppid, {}) THEN "OK" ELSE "EPERM"
         ELSE "OK"
    ELSE IF needs_root(operation) /\ (uid # 0 \/ gid # 0)
         THEN "EPERM"
         ELSE "OK"

(* lines 268-376: the error open_inner returns before it makes a handle,
   "OK" when it makes one *)
OpenCheck(ctxs, current, pid, operation_str, uid, gid) ==
    IF ParseOperation(operation_str) = {} THEN "EINVAL"
    ELSE LET operation == CHOOSE o \in ParseOperation(operation_str) : TRUE IN
         IF HoldsArc(operation) /\ pid \notin DOMAIN ctxs THEN "ENOENT"
         ELSE IF pid \notin DOMAIN ctxs THEN "ESRCH"
         ELSE IF ctxs[pid].status = "Exited" THEN "ESRCH"
         ELSE CheckSecurity(ctxs, current, ctxs[pid], operation, uid, gid)

(* the Handle open_inner makes, lines 352-359 *)
OpenedInfo(ctxs, pid, operation_str, flags) ==
    LET operation == CHOOSE o \in ParseOperation(operation_str) : TRUE
    IN  IF HoldsArc(operation)
        THEN [pid |-> pid, flags |-> flags, operation |-> operation,
              arc |-> ArcOf(ctxs[pid], operation)]
        ELSE IF operation = "Trace"
        THEN [pid |-> pid, flags |-> flags, operation |-> operation, clones |-> {}]
        ELSE Info(pid, flags, operation)

(* open_inner, lines 268-376, called by x on the contexts ctxs and the
   sessions sess; call is the record of the call that is kept with its
   result *)
open_inner(x, ctxs, sess, pid, operation_str, flags, uid, gid, call) ==
    LET check == OpenCheck(ctxs, x, pid, operation_str, uid, gid)
        \* a context spawned by this call has not run yet
        returned(r) == [id \in DOMAIN ctxs |->
                          IF id = x THEN r
                          ELSE IF id \in DOMAIN op THEN op[id] ELSE [pc |-> "user"]]
    IN  IF check # "OK"
        THEN /\ op' = returned([pc |-> "ret", res |-> check, call |-> call])
             /\ contexts' = ctxs
             /\ sessions' = sess
             /\ UNCHANGED <<handles, next_id>>
        ELSE LET info == OpenedInfo(ctxs, pid, operation_str, flags)
                 busy == info.operation = "Trace" /\ pid \in DOMAIN sess
             IN  /\ handles' = (next_id :> info) @@ handles
                 /\ sessions' = IF info.operation = "Trace" /\ ~busy
                                THEN (pid :> <<>>) @@ sess
                                ELSE sess
                 /\ next_id' = next_id + 1
                 /\ op' = returned([pc |-> "ret", res |-> IF busy THEN "EBUSY" ELSE "OK",
                                    call |-> call, id |-> next_id])
                 /\ contexts' =
                       IF info.operation = "Trace" /\ ~busy /\ "O_TRUNC" \in flags
                       THEN [ctxs EXCEPT ![pid].ptrace_stop = TRUE]
                       ELSE ctxs

(* the ids ContextList::new_context can give to a new context *)
FreeContextIds == UserIds \ DOMAIN contexts

(* inherit_context, lines 1212-1250: the contexts after the spawn; traced
   tells whether the PTRACE_EVENT_CLONE event was sent to a tracer *)
inherit_context(x, new_id, traced) ==
    (new_id :> [NewContext(new_id) EXCEPT !.status = "Stopped",
                                          !.euid = contexts[x].euid,
                                          !.egid = contexts[x].egid,
                                          !.ppid = contexts[x].id,
                                          !.ptrace_stop = traced])
    @@ contexts

(* str::parse of a context id: {} when the string is no number *)
ParsePid(pid_str) == {n \in 0 .. (NumCpus + NumUsers + 1) : ToString(n) = pid_str}

(* no instance of the scheme is restricted *)
IsRestricted_Never == FALSE

(* line 525: self.access == Access::Restricted *)
IsRestricted == access = "Restricted"

(* kopen, lines 517-533; the caller's euid and egid are in its CallerCtx *)
kopen(x, pid_str, operation_str, flags) ==
    /\ InUser(x)
    /\ next_id < MaxOpens
    /\ \A pid \in DOMAIN contexts : ~Locked(pid)
    /\ LET call == [name |-> "kopen", pid_str |-> pid_str, operation_str |-> operation_str,
                    flags |-> flags]
           uid == contexts[x].euid
           gid == contexts[x].egid
       IN  IF pid_str = "current"
           THEN open_inner(x, contexts, sessions, x, operation_str, flags, uid, gid, call)
           ELSE IF pid_str = "new"
           THEN /\ FreeContextIds # {}
                /\ LET new_id == CHOOSE id \in FreeContextIds :
                                     \A other \in FreeContextIds : id <= other
                   IN  \E traced \in (IF HasSession(x) THEN BOOLEAN ELSE {FALSE}) :
                          open_inner(x, inherit_context(x, new_id, traced),
                                     IF traced
                                     THEN [sessions EXCEPT ![x] = Append(@, new_id)]
                                     ELSE sessions,
                                     new_id, operation_str, flags, uid, gid, call)
           ELSE IF IsRestricted
           THEN /\ op' = [op EXCEPT ![x] = [pc |-> "ret", res |-> "EACCES", call |-> call]]
                /\ UNCHANGED <<contexts, handles, next_id, sessions>>
           ELSE IF ParsePid(pid_str) = {}
           THEN /\ op' = [op EXCEPT ![x] = [pc |-> "ret", res |-> "ENOENT", call |-> call]]
                /\ UNCHANGED <<contexts, handles, next_id, sessions>>
           ELSE open_inner(x, contexts, sessions, CHOOSE pid \in ParsePid(pid_str) : TRUE,
                           operation_str, flags, uid, gid, call)
    /\ UNCHANGED <<CONTEXT_SWITCH_LOCK, percpu_vars, now, list_vars>>

(* the reference a dup makes for its handle n: no context and no other
   handle holds it *)
NewArc(n) == NumCpus + NumUsers + 1 + n

(* kdup, lines 1112-1193 *)
kdup(x, old_id, buf) ==
    /\ InUser(x)
    /\ next_id < MaxOpens
    /\ \A pid \in DOMAIN contexts : ~Locked(pid)
    /\ LET call == [name |-> "kdup", old_id |-> old_id, buf |-> buf]
           made(info) ==
               /\ handles' = (next_id :> info) @@ handles
               /\ next_id' = next_id + 1
               /\ op' = [op EXCEPT ![x] = [pc |-> "ret", res |-> "OK", call |-> call,
                                           id |-> next_id]]
               /\ UNCHANGED <<contexts, sessions>>
           failed(e) ==
               /\ op' = [op EXCEPT ![x] = [pc |-> "ret", res |-> e, call |-> call]]
               /\ UNCHANGED <<contexts, handles, next_id, sessions>>
       IN  IF old_id \notin DOMAIN handles THEN failed("EBADF")
           ELSE LET info == handles[old_id] IN
                CASE info.operation = "OpenViaDup" ->
                        open_inner(x, contexts, sessions, info.pid, buf,
                                   {"O_RDWR", "O_CLOEXEC"},
                                   contexts[x].euid, contexts[x].egid, call)
                  [] info.operation = "Filetable" ->
                        IF buf # "copy" THEN failed("EINVAL")
                        ELSE made([pid |-> info.pid, flags |-> {}, operation |-> "Filetable",
                                   arc |-> NewArc(next_id)])
                  [] info.operation = "AddrSpace" ->
                        IF buf \in {"empty", "exclusive"}
                        THEN made([pid |-> info.pid, flags |-> {}, operation |-> "AddrSpace",
                                   arc |-> NewArc(next_id)])
                        ELSE IF buf = "mmap-min-addr"
                        THEN made([pid |-> info.pid, flags |-> {},
                                   operation |-> "MmapMinAddr", arc |-> info.arc])
                        ELSE failed("EINVAL")
                  [] info.operation = "Sigactions" ->
                        IF buf \in {"empty", "copy"}
                        THEN made([pid |-> info.pid, flags |-> {}, operation |-> "Sigactions",
                                   arc |-> NewArc(next_id)])
                        ELSE failed("EINVAL")
                  [] OTHER -> failed("EINVAL")
    /\ UNCHANGED <<CONTEXT_SWITCH_LOCK, percpu_vars, now, list_vars>>

(***************************************************************************)
(* Signals.  kill queues a signal for a context; the commit phase of       *)
(* switch() delivers it (DeliverSignal); the context returns from its      *)
(* handler through sigreturn, which asks the scheduler for the restore.    *)
(***************************************************************************)
(* the signals that may wait in Context.pending *)
MaxPending == 1

(* a context in user mode queues signal 1 for context pid *)
kill(x, pid) ==
    /\ InUser(x)
    /\ pid \in DOMAIN contexts
    /\ contexts[pid].status # "Exited"
    /\ Len(contexts[pid].pending) < MaxPending
    /\ contexts' = [contexts EXCEPT ![pid].pending = Append(@, 1)]
    /\ UNCHANGED <<CONTEXT_SWITCH_LOCK, percpu_vars, now, proc_vars, scheme_vars>>

(* the signal handler of x returns: the flag is set, x blocks and calls
   switch() *)
sigreturn(x) ==
    /\ InUser(x)
    /\ contexts[x].ksig # {}
    /\ ~Locked(x)
    /\ contexts' = [contexts EXCEPT ![x].ksig_restore = TRUE, ![x].status = "Blocked"]
    /\ SwitchEnter(CpuOf(x))
    /\ op' = [op EXCEPT ![x] = [pc |-> "sigreturn"]]
    /\ UNCHANGED <<CONTEXT_SWITCH_LOCK, context_id, idle_id, switch_result, cand, switch_time,
                   switch_context_opt, now, handles, next_id, scheme_vars>>

(* x is dispatched again with the registers the restore put back: it is in
   user mode, where the signal had interrupted it *)
SigResume(x) ==
    /\ Executing(x)
    /\ op[x].pc = "sigreturn"
    /\ ~contexts[x].ksig_restore
    /\ op' = [op EXCEPT ![x] = [pc |-> "user"]]
    /\ UNCHANGED <<contexts, CONTEXT_SWITCH_LOCK, percpu_vars, now, handles, next_id,
                   scheme_vars>>

(***************************************************************************)
(* The scheme registry (scheme/mod.rs).  A SchemeList is the record        *)
(*   map     : scheme id -> KernelSchemes variant                          *)
(*   names   : namespace -> (name -> scheme id)                            *)
(*   next_ns, next_id                                                      *)
(* Every operation is the function from the list (and its arguments) to    *)
(* the list it leaves and the value it returns.                            *)
(***************************************************************************)
(* 65_536 in the source; the ceiling of the model lies just above the ids
   SchemeList::new() hands out *)
SCHEME_MAX_SCHEMES == 17

(* the calls on the scheme list in one behaviour *)
MaxCalls == 3

Ok(v) == [ok |-> TRUE, val |-> v]
Err(e) == [ok |-> FALSE, err |-> e]

EmptyMap == [x \in {} |-> 0]

(* BTreeMap::insert: the new value replaces the old one *)
MapInsert(m, k, v) == (k :> v) @@ m

MapRemove(m, k) == [x \in DOMAIN m \ {k} |-> m[x]]

(* lines 226-228 *)
get(l, id) == IF id \in DOMAIN l.map THEN {l.map[id]} ELSE {}

(* lines 230-237: {} or {the id bound to name in ns, when that scheme is registered} *)
get_name(l, ns, name) ==
    IF ns \in DOMAIN l.names /\ name \in DOMAIN l.names[ns] /\ get(l, l.names[ns][name]) # {}
    THEN {l.names[ns][name]}
    ELSE {}

(* lines 255-257: the first id from n on that is not registered *)
RECURSIVE FirstFree(_, _)
FirstFree(map, n) == IF n \in DOMAIN map THEN FirstFree(map, n + 1) ELSE n

(* the wrap restarting the search at 0 *)
WrapNextId_Zero(n) == IF n >= SCHEME_MAX_SCHEMES THEN 0 ELSE n

(* lines 251-253 *)
WrapNextId(n) == IF n >= SCHEME_MAX_SCHEMES THEN 1 ELSE n

(* lines 244-278 *)
insert_and_pass(l, ns, name, scheme) ==
    IF ns \in DOMAIN l.names /\ name \in DOMAIN l.names[ns]
    THEN [list |-> l, res |-> Err("EEXIST")]
    ELSE LET id == FirstFree(l.map, WrapNextId(l.next_id))
             registered == [l EXCEPT !.next_id = id + 1, !.map = MapInsert(l.map, id, scheme)]
         IN  IF ns \in DOMAIN l.names
             THEN [list |-> [registered EXCEPT !.names[ns] = MapInsert(@, name, id)],
                   res |-> Ok(id)]
             ELSE [list |-> registered, res |-> Err("ENODEV")]

(* lines 240-242 *)
insert(l, ns, name, scheme) == insert_and_pass(l, ns, name, scheme)

(* insert(..).unwrap() for each scheme of the sequence, in order *)
RECURSIVE InsertAll(_, _, _)
InsertAll(l, ns, schemes) ==
    IF schemes = <<>> THEN l
    ELSE InsertAll(insert(l, ns, Head(schemes)[1], Head(schemes)[2]).list, ns, Tail(schemes))

(* lines 132-145 *)
new_null(l) ==
    InsertAll([l EXCEPT !.names = MapInsert(l.names, 0, EmptyMap)], 0,
              << <<"memory", "Memory">>, <<"thisproc", "Proc">>, <<"pipe", "Pipe">> >>)

(* lines 148-165: the list with the new namespace, and its id *)
new_ns(l) ==
    LET ns == l.next_ns
    IN  [list |-> InsertAll([l EXCEPT !.next_ns = ns + 1,
                                      !.names = MapInsert(l.names, ns, EmptyMap)], ns,
                            << <<"", "Root">>, <<"event", "Event">>, <<"itimer", "ITimer">>,
                               <<"memory", "Memory">>, <<"pipe", "Pipe">>, <<"sys", "Sys">>,
                               <<"time", "Time">> >>),
         ns |-> ns]

(* lines 168-195, without the schemes of the acpi and aarch64 builds *)
new_root(l) ==
    LET made == new_ns(l)
    IN  InsertAll(made.list, made.ns,
                  << <<"debug", "Debug">>, <<"irq", "Irq">>, <<"proc", "Proc">>,
                     <<"thisproc", "Proc">>, <<"serio", "Serio">> >>)

(* lines 119-130 *)
SchemeListNew ==
    new_root(new_null([map |-> EmptyMap, names |-> EmptyMap, next_ns |-> 1, next_id |-> 1]))

(* lines 202-216: the loop of make_ns over the names still to copy *)
RECURSIVE CopyNames(_, _, _, _)
CopyNames(l, from, to, names) ==
    IF names = <<>> THEN [list |-> l, res |-> Ok(to)]
    ELSE LET name == Head(names)
             found == get_name(l, from, name)
         IN  IF found = {} THEN [list |-> l, res |-> Err("ENODEV")]
             ELSE LET id == CHOOSE i \in found : TRUE
                      copied == [l EXCEPT !.names[to] = MapInsert(@, name, id)]
                  IN  IF name \in DOMAIN l.names[to]
                      THEN [list |-> copied, res |-> Err("EEXIST")]
                      ELSE CopyNames(copied, from, to, Tail(names))

(* lines 197-217 *)
make_ns(l, from, names) ==
    LET made == new_ns(l)
    IN  CopyNames(made.list, from, made.ns, names)

(* remove that takes the scheme out of the map and leaves its names *)
remove_MapOnly(l, id) == [l EXCEPT !.map = MapRemove(l.map, id)]

(* remove that forgets the names of the namespaces made after the root *)
remove_RootOnly(l, id) ==
    [l EXCEPT !.map = MapRemove(l.map, id),
              !.names = [ns \in DOMAIN l.names |->
                            IF ns > 1 THEN l.names[ns]
                            ELSE [name \in {n \in DOMAIN l.names[ns] : l.names[ns][n] # id}
                                     |-> l.names[ns][name]]]]

(* lines 281-294; the caller passes a registered id (line 282 asserts it) *)
remove(l, id) ==
    [l EXCEPT !.map = MapRemove(l.map, id),
              !.names = [ns \in DOMAIN l.names |->
                            [name \in {n \in DOMAIN l.names[ns] : l.names[ns][n] # id}
                                |-> l.names[ns][name]]]]

(* The calls on the list.  ret keeps the number of the call, its arguments,
   the list it started from and the value it returned. *)
NoCall == [seq |-> 0, call |-> "none"]

InsertNames == {"time", "user"}
InsertNamespaces == {0, 1, 2}
MakeNsNames == {<<>>, <<"time", "pipe">>, <<"debug", "proc">>, <<"debug", "debug">>,
                <<"debug", "null">>}

Insert(ns, name) ==
    /\ ret.seq < MaxCalls
    /\ LET r == insert(list, ns, name, "User")
       IN  /\ list' = r.list
           /\ ret' = [seq |-> ret.seq + 1, call |-> "insert", ns |-> ns, name |-> name,
                      before |-> list, res |-> r.res]
    /\ UNCHANGED kernel_vars

MakeNs(from, names) ==
    /\ ret.seq < MaxCalls
    /\ LET r == make_ns(list, from, names)
       IN  /\ list' = r.list
           /\ ret' = [seq |-> ret.seq + 1, call |-> "make_ns", from |-> from,
                      names |-> names, before |-> list, res |-> r.res]
    /\ UNCHANGED kernel_vars

Remove(id) ==
    /\ ret.seq < MaxCalls
    /\ id \in DOMAIN list.map
    /\ list' = remove(list, id)
    /\ ret' = [seq |-> ret.seq + 1, call |-> "remove", id |-> id, before |-> list]
    /\ UNCHANGED kernel_vars

(***************************************************************************)
(* Initial states.  Boot(cpus, users): the CPUs of `cpus` are up and each  *)
(* runs its idle context, the other CPUs have not been started (their      *)
(* per-CPU block still holds its default, context id 0); the contexts of   *)
(* `users` have been spawned and have not run yet.                         *)
(***************************************************************************)
(***************************************************************************)
(* calc_seek_offset (scheme/mod.rs), on machine words of WordBits bits.    *)
(***************************************************************************)
WordBits == 3

WordSize == 2 ^ WordBits
(* usize and isize *)
USize == 0 .. (WordSize - 1)
ISize == (0 - WordSize \div 2) .. (WordSize \div 2 - 1)

SEEK_SET == 0
SEEK_CUR == 1
SEEK_END == 2

(* rhs as usize: the two's complement bit pattern *)
AsUSize(rhs) == rhs % WordSize

(* usize::overflowing_add *)
overflowing_add(lhs, rhs) ==
    [res |-> (lhs + rhs) % WordSize, overflowed |-> lhs + rhs >= WordSize]

(* checked_add_signed without the sign of the right-hand side *)
checked_add_signed_NoSign(lhs, rhs) ==
    LET sum == overflowing_add(lhs, AsUSize(rhs))
    IN  IF sum.overflowed THEN {} ELSE {sum.res}

(* usize::checked_add_signed: overflowing_add of the bit pattern, overflow
   when the carry differs from the sign of the right-hand side *)
checked_add_signed(lhs, rhs) ==
    LET sum == overflowing_add(lhs, AsUSize(rhs))
    IN  IF sum.overflowed # (rhs < 0) THEN {} ELSE {sum.res}

(* Option::ok_or(Error::new(e)) *)
ok_or(opt, e) == IF opt = {} THEN Err(e) ELSE Ok(CHOOSE v \in opt : TRUE)

(* lines 413-421 *)
calc_seek_offset(cur_pos, rel_pos, whence, len) ==
    CASE whence = SEEK_SET -> IF rel_pos >= 0 THEN Ok(rel_pos) ELSE Err("EINVAL")
      [] whence = SEEK_CUR -> ok_or(checked_add_signed(cur_pos, rel_pos), "EOVERFLOW")
      [] whence = SEEK_END -> ok_or(checked_add_signed(len, rel_pos), "EOVERFLOW")
      [] OTHER -> Err("EINVAL")

(* The call of calc_seek_offset on the arguments drawn initially. *)
CalcSeekOffset ==
    /\ ret.call = "args"
    /\ ret' = [seq |-> 1, call |-> "calc_seek_offset", cur_pos |-> ret.cur_pos,
               rel_pos |-> ret.rel_pos, whence |-> ret.whence, len |-> ret.len,
               res |-> calc_seek_offset(ret.cur_pos, ret.rel_pos, ret.whence, ret.len)]
    /\ UNCHANGED <<kernel_vars, list>>

(* The schemes after scheme::init_globals: the proc: scheme (ProcScheme::new)
   and the scheme list (SchemeList::new); no call has been made yet. *)
Schemes ==
    /\ access = "OtherProcesses"
    /\ list = SchemeListNew
    /\ ret = NoCall

(* no context is traced *)
NoSessions == sessions = <<>>

(* debug: has no handle and no input *)
NoDebug ==
    /\ INPUT = <<>>
    /\ HANDLES = <<>>
    /\ NEXT_ID = 0

IdleContext(cpu) ==
    [NewContext(IdleOf(cpu)) EXCEPT !.running = TRUE, !.cpu_id = {cpu}]

Boot(cpus, users) ==
    /\ contexts = [id \in {IdleOf(cpu) : cpu \in cpus} \cup users |->
                      IF id \in IdleIds
                      THEN IdleContext(CHOOSE cpu \in Cpus : IdleOf(cpu) = id)
                      ELSE NewContext(id)]
    /\ CONTEXT_SWITCH_LOCK = FALSE
    /\ context_id = [cpu \in Cpus |-> IF cpu \in cpus THEN IdleOf(cpu) ELSE 0]
    /\ idle_id = [cpu \in Cpus |-> IF cpu \in cpus THEN IdleOf(cpu) ELSE 0]
    /\ pit_ticks = [cpu \in Cpus |-> 0]
    /\ switch_result = [cpu \in Cpus |-> {}]
    /\ cpu_pc = [cpu \in Cpus |-> IF cpu \in cpus THEN "run" ELSE "off"]
    /\ cand = [cpu \in Cpus |-> <<>>]
    /\ switch_time = [cpu \in Cpus |-> 0]
    /\ switch_context_opt = [cpu \in Cpus |-> {}]
    /\ now = 0
    /\ op = [id \in {IdleOf(cpu) : cpu \in cpus} \cup users |-> [pc |-> "user"]]

(* The first user context is traced: its regs/int, trace and name are open. *)
Target == NumCpus + 1

Traced ==
    /\ handles = (0 :> Info(Target, {}, "Regs(Int)"))
                  @@ (1 :> [pid |-> Target, flags |-> {"O_NONBLOCK"}, operation |-> "Trace",
                            clones |-> {}])
                  @@ (2 :> Info(Target, {}, "Name"))
    /\ next_id = 3
    /\ sessions = (Target :> <<>>)
    /\ NoDebug

(* Spec: all CPUs are up; the traced context and the other user contexts. *)
Init ==
    /\ Boot(Cpus, Target .. (Target + SmpUsers - 1))
    /\ Traced
    /\ Schemes

(* SpecUni: only the boot CPU is up; all user contexts. *)
InitUni ==
    /\ Boot({0}, UserIds)
    /\ Traced
    /\ Schemes

(* SpecTick: the boot CPU runs one of two user contexts; the other one has
   been switched out in any of the states update_runnable distinguishes. *)
Waiting(id, status, stop, pending, wake, restore, affinity) ==
    [NewContext(id) EXCEPT !.status = status,
                           !.ptrace_stop = stop,
                           !.pending = pending,
                           !.wake = wake,
                           !.ksig_restore = restore,
                           !.ksig = IF restore THEN {[arch |-> {}, sig |-> 1]} ELSE {},
                           !.arch = IF restore THEN signal_stack(1) ELSE {},
                           !.sched_affinity = affinity]

InitTick ==
    \E current \in {Target, Target + 1},
       current_status \in {"Runnable", "Blocked"},
       status \in {"Runnable", "Blocked", "Stopped"},
       stop \in BOOLEAN,
       pending \in {<<>>, <<1>>},
       wake \in {{}, {MaxNow}},
       restore \in BOOLEAN,
       affinity \in {Cpus, Cpus \ {0}} :
        LET other == CHOOSE id \in {Target, Target + 1} : id # current
        IN  /\ contexts =
                  (IdleOf(0) :> [IdleContext(0) EXCEPT !.running = FALSE])
                  @@ (current :> [NewContext(current) EXCEPT !.running = TRUE,
                                                             !.cpu_id = {0},
                                                             !.status = current_status])
                  @@ (other :> Waiting(other, status, stop, pending, wake, restore,
                                       affinity))
            /\ CONTEXT_SWITCH_LOCK = FALSE
            /\ context_id = [cpu \in Cpus |-> IF cpu = 0 THEN current ELSE 0]
            /\ idle_id = [cpu \in Cpus |-> IF cpu = 0 THEN IdleOf(0) ELSE 0]
            /\ pit_ticks = [cpu \in Cpus |-> 0]
            /\ switch_result = [cpu \in Cpus |-> {}]
            /\ cpu_pc = [cpu \in Cpus |-> IF cpu = 0 THEN "run" ELSE "off"]
            /\ cand = [cpu \in Cpus |-> <<>>]
            /\ switch_time = [cpu \in Cpus |-> 0]
            /\ switch_context_opt = [cpu \in Cpus |-> {}]
            /\ now = 0
            /\ handles = <<>>
            /\ next_id = 0
            /\ op = [id \in {IdleOf(0), Target, Target + 1} |-> [pc |-> "user"]]
            /\ Schemes
            /\ NoSessions
            /\ NoDebug

(* Time passes: time::monotonic() grows. *)
Advance ==
    /\ UNCHANGED scheme_vars
    /\ now < MaxNow
    /\ now' = now + 1
    /\ UNCHANGED <<contexts, CONTEXT_SWITCH_LOCK, percpu_vars, proc_vars>>

SchedNext ==
    \E cpu \in Cpus :
        \/ tick(cpu)
        \/ SwitchAcquire(cpu)
        \/ SwitchExamine(cpu)
        \/ SwitchCommit(cpu)
        \/ switch_finish_hook(cpu)
        \/ SwitchNoCandidate(cpu)

(* The steps of the proc: calls of context x, but for the wait loop of
   try_stop_context. *)
ProcCall(x) ==
    \/ \E id \in HandleIds : kread(x, id)
    \/ \E id \in HandleIds, singlestep \in BOOLEAN, name \in Names :
           kwrite(x, id, singlestep, <<name>>)
    \/ \E id \in HandleIds : close(x, id)
    \/ TryStopFinish(x)
    \/ KWriteTraceResume(x)
    \/ SysReturn(x)

(* The wait loop of try_stop_context: entered when the target runs on
   another CPU. *)
ProcWait(x) ==
    \/ TryStopSwitch(x)
    \/ TryStopCheck(x)

ProcNext == \E x \in UserIds : ProcCall(x) \/ ProcWait(x)

Next == SchedNext \/ ProcNext \/ (\E x \in UserIds : exit(x))

(* One CPU: no other context runs while a caller executes, the wait loop is
   never entered. *)
UniNext == SchedNext \/ (\E x \in UserIds : ProcCall(x)) \/ (\E x \in UserIds : exit(x))

Spec == Init /\ [][Next]_vars

SpecUni == InitUni /\ [][UniNext]_vars

(* SpecSchemes: the boot CPU is up, no user context yet; calls on the
   scheme list. *)
InitSchemes ==
    /\ Boot({0}, {})
    /\ handles = <<>>
    /\ next_id = 0
    /\ Schemes
    /\ NoSessions
    /\ NoDebug

SchemesNext ==
    \/ \E ns \in InsertNamespaces, name \in InsertNames : Insert(ns, name)
    \/ \E from \in {0, 1}, names \in MakeNsNames : MakeNs(from, names)
    \/ \E id \in DOMAIN list.map : Remove(id)

SpecSchemes == InitSchemes /\ [][SchemesNext]_vars

(* SpecSeek: a scheme is about to call calc_seek_offset on any arguments. *)
InitSeek ==
    \E cur_pos \in USize, rel_pos \in ISize, whence \in {SEEK_SET, SEEK_CUR, SEEK_END, 3},
       len \in USize :
        /\ Boot({0}, {})
        /\ handles = <<>>
        /\ next_id = 0
        /\ access = "OtherProcesses"
        /\ list = SchemeListNew
        /\ NoSessions
        /\ NoDebug
        /\ ret = [seq |-> 0, call |-> "args", cur_pos |-> cur_pos, rel_pos |-> rel_pos,
                  whence |-> whence, len |-> len]

SeekNext == CalcSeekOffset

SpecSeek == InitSeek /\ [][SeekNext]_vars

(* SpecSig: all CPUs are up; the user contexts send each other signals and
   return from their handlers. *)
InitSig ==
    /\ Boot(Cpus, Target .. (Target + SmpUsers - 1))
    /\ handles = <<>>
    /\ next_id = 0
    /\ Schemes
    /\ NoSessions
    /\ NoDebug

SigNext ==
    \/ SchedNext
    \/ \E x \in UserIds, pid \in UserIds : kill(x, pid)
    \/ \E x \in UserIds : sigreturn(x)
    \/ \E x \in UserIds : SigResume(x)

SpecSig == InitSig /\ [][SigNext]_vars

(* The CPUs of DOMAIN current are up and current[cpu] is the user context
   each of them runs; the contexts of users have been spawned with the
   given owners and parents; no handle has been opened. *)
NoContext == NumCpus + NumUsers + 1

Dispatched(current, users, euid, egid, ppid) ==
    /\ contexts =
          [id \in {IdleOf(cpu) : cpu \in DOMAIN current} \cup users |->
              IF id \in IdleIds
              THEN [IdleContext(CHOOSE cpu \in Cpus : IdleOf(cpu) = id)
                       EXCEPT !.running = FALSE]
              ELSE [NewContext(id) EXCEPT
                       !.running = \E cpu \in DOMAIN current : current[cpu] = id,
                       !.cpu_id = {cpu \in DOMAIN current : current[cpu] = id},
                       !.euid = euid[id],
                       !.egid = egid[id],
                       !.ppid = ppid[id]]]
    /\ CONTEXT_SWITCH_LOCK = FALSE
    /\ context_id = [cpu \in Cpus |-> IF cpu \in DOMAIN current THEN current[cpu] ELSE 0]
    /\ idle_id = [cpu \in Cpus |-> IF cpu \in DOMAIN current THEN IdleOf(cpu) ELSE 0]
    /\ pit_ticks = [cpu \in Cpus |-> 0]
    /\ switch_result = [cpu \in Cpus |-> {}]
    /\ cpu_pc = [cpu \in Cpus |-> IF cpu \in DOMAIN current THEN "run" ELSE "off"]
    /\ cand = [cpu \in Cpus |-> <<>>]
    /\ switch_time = [cpu \in Cpus |-> 0]
    /\ switch_context_opt = [cpu \in Cpus |-> {}]
    /\ now = 0
    /\ handles = <<>>
    /\ next_id = 0
    /\ op = [id \in {IdleOf(cpu) : cpu \in DOMAIN current} \cup users |-> [pc |-> "user"]]
    /\ list = SchemeListNew
    /\ ret = NoCall
    /\ NoSessions
    /\ NoDebug

(* SpecOpen: the boot CPU runs the first user context, which opens handles
   of proc:; the second user context may be its child, and the two have any
   of the uids and gids. *)
OpenPids == {"current", "new", ToString(Target + 1), ToString(NoContext), "self"}
OpenOperations == {"regs/int", "trace", "current-filetable", "open_via_dup", "uid", "stat"}
OpenFlags == {{}, {"O_TRUNC"}}
DupBufs == {"", "regs/int", "uid"}

InitOpen ==
    \E uid \in {0, 1}, gid \in {0, 1}, target_uid \in {1, 2}, target_gid \in {1, 2},
       target_ppid \in {0, Target} :
        /\ Dispatched((0 :> Target), {Target, Target + 1},
                      (Target :> uid) @@ (Target + 1 :> target_uid),
                      (Target :> gid) @@ (Target + 1 :> target_gid),
                      (Target :> 0) @@ (Target + 1 :> target_ppid))
        /\ access = "OtherProcesses"

OpenNext ==
    \/ \E x \in UserIds, pid_str \in OpenPids, operation_str \in OpenOperations,
          flags \in OpenFlags : kopen(x, pid_str, operation_str, flags)
    \/ \E x \in UserIds, old_id \in 0 .. (MaxOpens - 1), buf \in DupBufs :
          kdup(x, old_id, buf)
    \/ \E x \in UserIds : SysReturn(x)

SpecOpen == InitOpen /\ [][OpenNext]_vars

(* SpecRestricted: each CPU runs a user context, the first is the parent of
   the others; they open handles of thisproc:, the restricted instance of
   the scheme. *)
RestrictedPids == {"current", "new", ToString(Target)}
RestrictedOperations == {"regs/int", "open_via_dup"}

InitRestricted ==
    /\ Dispatched([cpu \in Cpus |-> Target + cpu], {Target + cpu : cpu \in Cpus},
                  [id \in {Target + cpu : cpu \in Cpus} |-> 1],
                  [id \in {Target + cpu : cpu \in Cpus} |-> 1],
                  [id \in {Target + cpu : cpu \in Cpus} |-> IF id = Target THEN 0 ELSE Target])
    /\ access = "Restricted"

RestrictedNext ==
    \/ \E x \in UserIds, pid_str \in RestrictedPids, operation_str \in RestrictedOperations :
          kopen(x, pid_str, operation_str, {})
    \/ \E x \in UserIds, old_id \in 0 .. (MaxOpens - 1), buf \in {"", "regs/int"} :
          kdup(x, old_id, buf)
    \/ \E x \in UserIds : SysReturn(x)

SpecRestricted == InitRestricted /\ [][RestrictedNext]_vars

(* SpecCurrent: each CPU runs a user context owned by root; they open file
   tables, address spaces and signal actions and the current-* handles of
   the first context, read, write, dup and close them.  No timer runs: a
   caller that waits in try_stop_context for a running target keeps
   waiting. *)
CurrentPids == {"current", ToString(Target)}
CurrentOperations == {"filetable", "current-filetable", "addrspace", "current-addrspace",
                      "sigactions", "current-sigactions"}

InitCurrent ==
    /\ Dispatched([cpu \in Cpus |-> Target + cpu], {Target + cpu : cpu \in Cpus},
                  [id \in {Target + cpu : cpu \in Cpus} |-> 0],
                  [id \in {Target + cpu : cpu \in Cpus} |-> 0],
                  [id \in {Target + cpu : cpu \in Cpus} |-> 0])
    /\ access = "OtherProcesses"

CurrentNext ==
    \/ \E x \in UserIds, pid_str \in CurrentPids, operation_str \in CurrentOperations :
          kopen(x, pid_str, operation_str, {})
    \/ \E x \in UserIds, id \in 0 .. (MaxOpens - 1) : kread(x, id)
    \/ \E x \in UserIds, id \in 0 .. (MaxOpens - 1), number \in Names :
          kwrite(x, id, FALSE, <<number, 1, 1>>)
    \/ \E x \in UserIds, id \in 0 .. (MaxOpens - 1), cmd \in {"F_SETFL", "F_GETFL"},
          arg \in {{}, {"O_NONBLOCK"}} : fcntl(x, id, cmd, arg)
    \/ \E x \in UserIds, old_id \in 0 .. (MaxOpens - 1), buf \in {"copy", "empty"} :
          kdup(x, old_id, buf)
    \/ \E x \in UserIds, id \in 0 .. (MaxOpens - 1) : close(x, id)
    \/ \E x \in UserIds : SysReturn(x)

SpecCurrent == InitCurrent /\ [][CurrentNext]_vars

(* SpecAddr: all CPUs are up; two address spaces (that of the second user
   context and a new one) and the current-addrspace of the first user
   context are open; the user contexts write and close the handles while
   the timer runs. *)
AddrSpaces ==
    /\ handles = (0 :> [pid |-> Target + 1, flags |-> {}, operation |-> "AddrSpace",
                         arc |-> Target + 1])
                  @@ (1 :> [pid |-> Target + 1, flags |-> {}, operation |-> "AddrSpace",
                            arc |-> NewArc(1)])
                  @@ (2 :> Info(Target, {}, "CurrentAddrSpace"))
    /\ next_id = 3
    /\ NoSessions
    /\ NoDebug

AddrBufs == {<<0, 1, 2>>, <<1, 2, 1>>, <<2, 1, 1>>, <<0>>}

InitAddr ==
    /\ Boot(Cpus, Target .. (Target + SmpUsers - 1))
    /\ AddrSpaces
    /\ Schemes

AddrNext ==
    \/ SchedNext
    \/ \E x \in UserIds, buf \in AddrBufs : kwrite(x, 2, FALSE, buf)
    \/ \E x \in UserIds : close(x, 2)
    \/ \E x \in UserIds : ProcWait(x)
    \/ \E x \in UserIds : TryStopFinish(x)
    \/ \E x \in UserIds : SysReturn(x)

SpecAddr == InitAddr /\ [][AddrNext]_vars

(* SpecTrace: the boot CPU runs the first user context, a tracer owned by
   root.  It has opened the trace handle 0 of the second user context with
   O_EXCL and O_TRUNC and its regs/int handle 1.  The tracee has spawned the
   third user context, which the clone event has frozen; the tracer has
   read that event or not, and has opened the trace handle 2 of the clone,
   without O_EXCL, or not. *)
Tracee == Target + 1
Clone == Target + 2

InitTrace ==
    \E nonblock \in {{}, {"O_NONBLOCK"}}, read \in BOOLEAN, clone_traced \in BOOLEAN :
        /\ contexts =
              (IdleOf(0) :> [IdleContext(0) EXCEPT !.running = FALSE])
              @@ (Target :> [NewContext(Target) EXCEPT !.running = TRUE, !.cpu_id = {0}])
              @@ (Tracee :> [NewContext(Tracee) EXCEPT !.ppid = Target,
                                                       !.ptrace_stop = TRUE])
              @@ (Clone :> [NewContext(Clone) EXCEPT !.ppid = Tracee,
                                                     !.status = "Stopped",
                                                     !.ptrace_stop = TRUE])
        /\ CONTEXT_SWITCH_LOCK = FALSE
        /\ context_id = [cpu \in Cpus |-> IF cpu = 0 THEN Target ELSE 0]
        /\ idle_id = [cpu \in Cpus |-> IF cpu = 0 THEN IdleOf(0) ELSE 0]
        /\ pit_ticks = [cpu \in Cpus |-> 0]
        /\ switch_result = [cpu \in Cpus |-> {}]
        /\ cpu_pc = [cpu \in Cpus |-> IF cpu = 0 THEN "run" ELSE "off"]
        /\ cand = [cpu \in Cpus |-> <<>>]
        /\ switch_time = [cpu \in Cpus |-> 0]
        /\ switch_context_opt = [cpu \in Cpus |-> {}]
        /\ now = 0
        /\ op = [id \in {IdleOf(0), Target, Tracee, Clone} |-> [pc |-> "user"]]
        /\ handles =
              (0 :> [pid |-> Tracee, flags |-> {"O_EXCL", "O_TRUNC"} \cup nonblock,
                     operation |-> "Trace", clones |-> IF read THEN {Clone} ELSE {}])
              @@ (1 :> Info(Tracee, {}, "Regs(Int)"))
              @@ (IF clone_traced
                  THEN (2 :> [pid |-> Clone, flags |-> nonblock, operation |-> "Trace",
                              clones |-> {}])
                  ELSE <<>>)
        /\ next_id = 3
        /\ sessions = (Tracee :> IF read THEN <<>> ELSE <<Clone>>)
                       @@ (IF clone_traced THEN (Clone :> <<>>) ELSE <<>>)
        /\ NoDebug
        /\ Schemes

\* The tracer never blocks and never exits here, so a switch() entered from the
\* idle context always finds it: the exit of switch() without a candidate
\* (SwitchNoCandidate) cannot occur and is not listed.
TraceNext ==
    \/ \E cpu \in Cpus : tick(cpu)
    \/ \E cpu \in Cpus : SwitchAcquire(cpu)
    \/ \E cpu \in Cpus : SwitchExamine(cpu)
    \/ \E cpu \in Cpus : SwitchCommit(cpu)
    \/ \E cpu \in Cpus : switch_finish_hook(cpu)
    \/ \E x \in UserIds, id \in HandleIds : kread(x, id)
    \/ \E x \in UserIds, id \in HandleIds, singlestep \in BOOLEAN :
          kwrite(x, id, singlestep, <<0>>)
    \/ \E x \in UserIds, id \in HandleIds, arg \in {{}, {"O_NONBLOCK"}} :
          fcntl(x, id, "F_SETFL", arg)
    \/ \E x \in UserIds, id \in HandleIds : close(x, id)
    \/ \E x \in UserIds : TryStopFinish(x)
    \/ \E x \in UserIds : KWriteTraceResume(x)
    \/ \E x \in UserIds : SysReturn(x)

SpecTrace == InitTrace /\ [][TraceNext]_vars

(***************************************************************************)
(* debug: scheme (scheme/debug.rs).  INPUT is a WaitQueue of bytes: send   *)
(* appends a byte and notifies the waiters, receive_into_user takes bytes  *)
(* from the front, and waits on an empty queue when it is told to block.   *)
(***************************************************************************)
MaxInput == 2
Bytes == {72, 105}
BufLens == {1, 4}
DebugFlags == {{}, {"O_NONBLOCK"}, {"O_RDWR"}}
O_ACCMODE == {"O_RDONLY", "O_WRONLY", "O_RDWR"}

(* a context waits in the condition of the queue *)
InCondition(id) == op[id].pc \in {"wait_switch", "wait_retry"}

(* debug_input, lines 27-29: WaitQueue::send *)
debug_input(data) ==
    /\ \E cpu \in Cpus : cpu_pc[cpu] = "run"
    /\ Len(INPUT) < MaxInput
    /\ \A id \in DOMAIN contexts : InCondition(id) => ~Locked(id)
    /\ INPUT' = Append(INPUT, data)
    /\ contexts' = [id \in DOMAIN contexts |->
                       IF InCondition(id) THEN unblock_no_ipi(contexts[id]) ELSE contexts[id]]
    /\ UNCHANGED <<CONTEXT_SWITCH_LOCK, percpu_vars, now, proc_vars, access, list, ret,
                   sessions, HANDLES, NEXT_ID>>

(* kopen, lines 51-66 *)
debug_kopen(x, path, flags) ==
    /\ InUser(x)
    /\ NEXT_ID < MaxOpens
    /\ IF contexts[x].euid # 0
       THEN /\ Return(x, "EPERM")
            /\ UNCHANGED <<HANDLES, NEXT_ID>>
       ELSE IF path # ""
       THEN /\ Return(x, "ENOENT")
            /\ UNCHANGED <<HANDLES, NEXT_ID>>
       ELSE /\ NEXT_ID' = NEXT_ID + 1
            /\ HANDLES' = (NEXT_ID :> [flags |-> flags \ O_ACCMODE]) @@ HANDLES
            /\ op' = [op EXCEPT ![x] = [pc |-> "ret", res |-> "OK", id |-> NEXT_ID]]
    /\ UNCHANGED <<contexts, CONTEXT_SWITCH_LOCK, percpu_vars, now, handles, next_id,
                   access, list, ret, sessions, INPUT>>

(* fcntl, lines 68-82, for F_SETFL *)
debug_fcntl(x, id, arg) ==
    /\ InUser(x)
    /\ IF id \in DOMAIN HANDLES
       THEN /\ HANDLES' = [HANDLES EXCEPT ![id].flags = arg \ O_ACCMODE]
            /\ Return(x, "OK")
       ELSE /\ Return(x, "EBADF")
            /\ UNCHANGED HANDLES
    /\ UNCHANGED <<contexts, CONTEXT_SWITCH_LOCK, percpu_vars, now, handles, next_id,
                   access, list, ret, sessions, INPUT, NEXT_ID>>

(* close, lines 103-110 *)
debug_close(x, id) ==
    /\ InUser(x)
    /\ IF id \in DOMAIN HANDLES
       THEN /\ HANDLES' = [h \in DOMAIN HANDLES \ {id} |-> HANDLES[h]]
            /\ Return(x, "OK")
       ELSE /\ Return(x, "EBADF")
            /\ UNCHANGED HANDLES
    /\ UNCHANGED <<contexts, CONTEXT_SWITCH_LOCK, percpu_vars, now, handles, next_id,
                   access, list, ret, sessions, INPUT, NEXT_ID>>

(* kread, line 118, with the sense of the test turned round *)
Block_Inverted(flags) == "O_NONBLOCK" \in flags

(* kread, line 118: the read may block *)
Block(flags) == "O_NONBLOCK" \notin flags

(* WaitQueue::receive_into_user for a buffer of len bytes: the bytes at
   the front are copied out and removed; on an empty queue the caller is
   marked blocked and waits, or gets EAGAIN at once *)
receive_into_user(x, id, len, block) ==
    IF INPUT = <<>>
    THEN /\ UNCHANGED INPUT
         /\ IF block
            THEN /\ Lockable(x)
                 /\ contexts' = [contexts EXCEPT ![x].status = "Blocked"]
                 /\ op' = [op EXCEPT ![x] = [pc |-> "wait_switch", id |-> id,
                                             len |-> len, block |-> block]]
            ELSE /\ UNCHANGED contexts
                 /\ IF len = 0
                    THEN op' = [op EXCEPT ![x] =
                                  [pc |-> "ret", res |-> "OK", id |-> id, len |-> len,
                                   block |-> block, buf |-> <<>>]]
                    ELSE op' = [op EXCEPT ![x] =
                                  [pc |-> "ret", res |-> "EAGAIN", id |-> id, len |-> len,
                                   block |-> block, buf |-> <<>>]]
    ELSE LET count == IF len < Len(INPUT) THEN len ELSE Len(INPUT)
         IN  /\ INPUT' = SubSeq(INPUT, count + 1, Len(INPUT))
             /\ op' = [op EXCEPT ![x] =
                          [pc |-> "ret", res |-> "OK", id |-> id, len |-> len,
                           block |-> block, buf |-> SubSeq(INPUT, 1, count)]]
             /\ UNCHANGED contexts

(* kread, lines 111-119 *)
debug_kread(x, id, len) ==
    /\ InUser(x)
    /\ IF id \notin DOMAIN HANDLES
       THEN /\ Return(x, "EBADF")
            /\ UNCHANGED <<contexts, INPUT>>
       ELSE receive_into_user(x, id, len, Block(HANDLES[id].flags))
    /\ UNCHANGED <<CONTEXT_SWITCH_LOCK, percpu_vars, now, handles, next_id,
                   access, list, ret, sessions, HANDLES, NEXT_ID>>

(* the waiting reader yields its CPU *)
WaitSwitch(x) ==
    /\ UNCHANGED scheme_vars
    /\ Executing(x)
    /\ op[x].pc = "wait_switch"
    /\ SwitchEnter(CpuOf(x))
    /\ op' = [op EXCEPT ![x].pc = "wait_retry"]
    /\ UNCHANGED <<contexts, CONTEXT_SWITCH_LOCK, context_id, idle_id, switch_result,
                   cand, switch_time, switch_context_opt, now, handles, next_id>>

(* the reader runs again and looks at the queue once more *)
WaitRetry(x) ==
    /\ Executing(x)
    /\ op[x].pc = "wait_retry"
    /\ receive_into_user(x, op[x].id, op[x].len, op[x].block)
    /\ UNCHANGED <<CONTEXT_SWITCH_LOCK, percpu_vars, now, handles, next_id,
                   access, list, ret, sessions, HANDLES, NEXT_ID>>

(* SpecDebug: two contexts of root on one CPU open debug:, set flags,
   read and close while the serial interrupt feeds bytes. *)
InitDebug ==
    /\ Boot({0}, Target .. (Target + SmpUsers - 1))
    /\ handles = <<>>
    /\ next_id = 0
    /\ NoSessions
    /\ NoDebug
    /\ Schemes

DebugNext ==
    \/ SchedNext
    \/ \E data \in Bytes : debug_input(data)
    \/ \E x \in UserIds, flags \in DebugFlags : debug_kopen(x, "", flags)
    \/ \E x \in UserIds, id \in 0 .. (MaxOpens - 1), arg \in {{}, {"O_NONBLOCK"}} :
          debug_fcntl(x, id, arg)
    \/ \E x \in UserIds, id \in 0 .. (MaxOpens - 1) : debug_close(x, id)
    \/ \E x \in UserIds, id \in 0 .. (MaxOpens - 1), len \in BufLens :
          debug_kread(x, id, len)
    \/ \E x \in UserIds : WaitSwitch(x)
    \/ \E x \in UserIds : WaitRetry(x)
    \/ \E x \in UserIds : SysReturn(x)

SpecDebug == InitDebug /\ [][DebugNext]_vars

(* SpecRound: the boot CPU with its timer and the clock; each user context
   is runnable, frozen by ptrace_stop or blocked without a deadline, and
   nothing but the scheduler runs, so each stays what it is. *)
InitRound ==
    \E kind \in [UserIds -> {"runnable", "stopped", "blocked"}] :
        /\ contexts = [id \in {IdleOf(0)} \cup UserIds |->
                          IF id = IdleOf(0) THEN IdleContext(0)
                          ELSE [NewContext(id) EXCEPT
                                   !.ptrace_stop = (kind[id] = "stopped"),
                                   !.status = IF kind[id] = "blocked" THEN "Blocked"
                                              ELSE "Runnable"]]
        /\ CONTEXT_SWITCH_LOCK = FALSE
        /\ context_id = [cpu \in Cpus |-> IF cpu = 0 THEN IdleOf(0) ELSE 0]
        /\ idle_id = [cpu \in Cpus |-> IF cpu = 0 THEN IdleOf(0) ELSE 0]
        /\ pit_ticks = [cpu \in Cpus |-> 0]
        /\ switch_result = [cpu \in Cpus |-> {}]
        /\ cpu_pc = [cpu \in Cpus |-> IF cpu = 0 THEN "run" ELSE "off"]
        /\ cand = [cpu \in Cpus |-> <<>>]
        /\ switch_time = [cpu \in Cpus |-> 0]
        /\ switch_context_opt = [cpu \in Cpus |-> {}]
        /\ now = 0
        /\ op = [id \in {IdleOf(0)} \cup UserIds |-> [pc |-> "user"]]
        /\ handles = <<>>
        /\ next_id = 0
        /\ NoSessions
        /\ NoDebug
        /\ Schemes

RoundNext == SchedNext \/ Advance

SpecRound == InitRound /\ [][RoundNext]_vars

(***************************************************************************)
(* with_context_mut in two steps: the write lock of the context is taken,  *)
(* and then the callback runs and the guard is dropped.  Between the two   *)
(* the timer interrupt can arrive on the CPU of the caller.                *)
(***************************************************************************)
(* proc.rs lines 58-60 *)
WithContextMutLock(x, pid) ==
    /\ UNCHANGED scheme_vars
    /\ InUser(x)
    /\ IF pid \notin DOMAIN contexts
       THEN Return(x, "ESRCH")
       ELSE /\ ~Locked(pid)
            /\ op' = [op EXCEPT ![x] = [pc |-> "locked", lock |-> pid]]
    /\ UNCHANGED <<contexts, CONTEXT_SWITCH_LOCK, percpu_vars, now, handles, next_id>>

(* proc.rs lines 61-65 *)
WithContextMutUnlock(x) ==
    /\ UNCHANGED scheme_vars
    /\ Executing(x)
    /\ op[x].pc = "locked"
    /\ Return(x, with_context_mut(op[x].lock))
    /\ UNCHANGED <<contexts, CONTEXT_SWITCH_LOCK, percpu_vars, now, handles, next_id>>

(* switch(), lines 129-134 and 147, when the previous context is locked by
   a call: the compare-exchange succeeds and the CPU spins in write_arc *)
SwitchAcquireBusy(cpu) ==
    /\ UNCHANGED scheme_vars
    /\ cpu_pc[cpu] = "spin"
    /\ CONTEXT_SWITCH_LOCK = FALSE
    /\ HeldByCall(context_id[cpu])
    /\ CONTEXT_SWITCH_LOCK' = TRUE
    /\ cpu_pc' = [cpu_pc EXCEPT ![cpu] = "prev"]
    /\ UNCHANGED <<contexts, context_id, idle_id, pit_ticks, switch_result, cand, switch_time,
                   switch_context_opt, now, proc_vars>>

(* switch(), line 147: write_arc on the previous context returns *)
SwitchLockPrev(cpu) ==
    /\ UNCHANGED scheme_vars
    /\ cpu_pc[cpu] = "prev"
    /\ ~Locked(context_id[cpu])
    /\ cpu_pc' = [cpu_pc EXCEPT ![cpu] = "scan"]
    /\ cand' = [cand EXCEPT ![cpu] =
                    Candidates(DOMAIN contexts, context_id[cpu], idle_id[cpu])]
    /\ switch_time' = [switch_time EXCEPT ![cpu] = now]
    /\ UNCHANGED <<contexts, CONTEXT_SWITCH_LOCK, context_id, idle_id, pit_ticks,
                   switch_result, switch_context_opt, now, proc_vars>>

(* SpecPreempt: two CPUs with their timers, two user contexts that call
   with_context_mut on each other and on themselves.  Every CPU goes on
   executing: a step of switch() that stays possible is taken, a spinning
   CPU gets CONTEXT_SWITCH_LOCK if it is free again and again, and a
   context that is dispatched finishes its call. *)
InitPreempt ==
    /\ Boot(Cpus, Target .. (Target + SmpUsers - 1))
    /\ handles = <<>>
    /\ next_id = 0
    /\ NoSessions
    /\ NoDebug
    /\ Schemes

PreemptNext ==
    \/ SchedNext
    \/ \E cpu \in Cpus : SwitchAcquireBusy(cpu)
    \/ \E cpu \in Cpus : SwitchLockPrev(cpu)
    \/ \E x \in UserIds, pid \in Target .. (Target + SmpUsers - 1) : WithContextMutLock(x, pid)
    \/ \E x \in UserIds : WithContextMutUnlock(x)
    \/ \E x \in UserIds : SysReturn(x)

FairPreempt ==
    /\ \A cpu \in Cpus :
          /\ SF_vars(SwitchAcquire(cpu) \/ SwitchAcquireBusy(cpu))
          /\ WF_vars(SwitchLockPrev(cpu))
          /\ WF_vars(SwitchExamine(cpu))
          /\ WF_vars(SwitchCommit(cpu))
          /\ WF_vars(switch_finish_hook(cpu))
          /\ WF_vars(SwitchNoCandidate(cpu))
    /\ \A x \in UserIds :
          /\ WF_vars(WithContextMutUnlock(x))
          /\ WF_vars(SysReturn(x))

SpecPreempt == InitPreempt /\ [][PreemptNext]_vars /\ FairPreempt

(* SpecStop: two CPUs with their timers, two user contexts, each holding
   the regs/int handle of the other; a read of the handle goes through
   try_stop_context.  The timer of every CPU keeps ticking, every step of
   switch() that stays possible is taken, a spinning CPU gets
   CONTEXT_SWITCH_LOCK if it is free again and again, and a context takes
   its next step if it is dispatched again and again. *)
InitStop ==
    /\ Boot(Cpus, Target .. (Target + SmpUsers - 1))
    /\ handles = (0 :> Info(Target + 1, {}, "Regs(Int)"))
                  @@ (1 :> Info(Target, {}, "Regs(Int)"))
    /\ next_id = 2
    /\ NoSessions
    /\ NoDebug
    /\ Schemes

StopNext ==
    \/ SchedNext
    \/ kread(Target, 0)
    \/ kread(Target + 1, 1)
    \/ \E x \in UserIds : ProcWait(x)
    \/ \E x \in UserIds : TryStopFinish(x)
    \/ \E x \in UserIds : SysReturn(x)
    \/ \E x \in UserIds : exit(x)

FairStop ==
    /\ \A cpu \in Cpus :
          /\ WF_vars(tick(cpu))
          /\ SF_vars(SwitchAcquire(cpu))
          /\ WF_vars(SwitchExamine(cpu))
          /\ WF_vars(SwitchCommit(cpu))
          /\ WF_vars(switch_finish_hook(cpu))
          /\ WF_vars(SwitchNoCandidate(cpu))
    /\ \A x \in Target .. (Target + SmpUsers - 1) :
          /\ SF_vars(TryStopSwitch(x))
          /\ SF_vars(TryStopCheck(x))
          /\ SF_vars(TryStopFinish(x))

SpecStop == InitStop /\ [][StopNext]_vars /\ FairStop

(***************************************************************************)
(* kread on a trace handle opened without O_NONBLOCK (proc.rs 735-779).    *)
(* ptrace::wait and ptrace::send_event are not in the sources.  wait       *)
(* returns at once when the session holds an event; otherwise the caller   *)
(* is marked blocked and calls switch() until one is queued.  send_event   *)
(* queues an event in the session of the sender and unblocks the waiting   *)
(* tracer.  An event that is no clone event is written as the pid of the   *)
(* tracee itself.                                                          *)
(***************************************************************************)
MaxQueued == 1

(* Another call finds self.handles taken and spins on it (close line 560,
   kread line 680, kwrite line 857). *)
HandlesSpin(x, name, id) ==
    /\ InUser(x)
    /\ HandlesHeld
    /\ op' = [op EXCEPT ![x] = [pc |-> "handles", call |-> name, id |-> id]]
    /\ UNCHANGED <<contexts, CONTEXT_SWITCH_LOCK, percpu_vars, now, handles, next_id,
                   scheme_vars>>

(* lines 744-779, once ptrace::wait has returned: the events are taken
   from the session and the clones among them are noted in the handle *)
recv_events(x, id) ==
    LET info == handles[id] IN
    /\ Lockable(info.pid)
    /\ IF with_context(info.pid) # "OK"
       THEN /\ Return(x, with_context(info.pid))
            /\ UNCHANGED <<handles, sessions>>
       ELSE IF info.pid \notin DOMAIN sessions
       THEN /\ Return(x, "ENODEV")
            /\ UNCHANGED <<handles, sessions>>
       ELSE LET queued == sessions[info.pid]
                read == IF Len(queued) < MaxEvents THEN Len(queued) ELSE MaxEvents
            IN  /\ sessions' = [sessions EXCEPT ![info.pid] =
                                   SubSeq(queued, read + 1, Len(queued))]
                /\ handles' = [handles EXCEPT ![id].clones =
                                   @ \cup ({queued[i] : i \in 1 .. read} \ {info.pid})]
                /\ Return(x, "OK")
    /\ UNCHANGED contexts

(* y waits in ptrace::wait for an event of pid *)
InTraceWait(y, pid) ==
    /\ op[y].pc \in {"trace_wait", "trace_sleep"}
    /\ op[y].id \in DOMAIN handles
    /\ handles[op[y].id].pid = pid

(* ptrace::wait(pid) has to wait: the pid has a session without an event *)
MustWait(pid) == pid \in DOMAIN sessions /\ sessions[pid] = <<>>

(* kread, Operation::Trace without O_NONBLOCK, lines 735-743: the write
   guard of self.handles is taken and ptrace::wait is called under it *)
TraceWait(x, id) ==
    /\ UNCHANGED list_vars
    /\ AtHandles(x, "kread", id)
    /\ id \in DOMAIN handles
    /\ handles[id].operation = "Trace"
    /\ "O_NONBLOCK" \notin handles[id].flags
    /\ IF MustWait(handles[id].pid)
       THEN /\ Lockable(x)
            /\ contexts' = [contexts EXCEPT ![x].status = "Blocked"]
            /\ op' = [op EXCEPT ![x] = [pc |-> "trace_wait", id |-> id]]
            /\ UNCHANGED <<handles, sessions>>
       ELSE recv_events(x, id)
    /\ UNCHANGED <<CONTEXT_SWITCH_LOCK, percpu_vars, now, next_id>>

(* the waiting tracer yields its CPU *)
TraceSleep(x) ==
    /\ UNCHANGED scheme_vars
    /\ Executing(x)
    /\ op[x].pc = "trace_wait"
    /\ SwitchEnter(CpuOf(x))
    /\ op' = [op EXCEPT ![x].pc = "trace_sleep"]
    /\ UNCHANGED <<contexts, CONTEXT_SWITCH_LOCK, context_id, idle_id, switch_result,
                   cand, switch_time, switch_context_opt, now, handles, next_id>>

(* the tracer runs again: it waits once more or reads the events, and the
   guard of self.handles is dropped when kread returns *)
TraceWake(x) ==
    /\ UNCHANGED list_vars
    /\ Executing(x)
    /\ op[x].pc = "trace_sleep"
    /\ IF op[x].id \in DOMAIN handles /\ MustWait(handles[op[x].id].pid)
       THEN /\ Lockable(x)
            /\ contexts' = [contexts EXCEPT ![x].status = "Blocked"]
            /\ op' = [op EXCEPT ![x].pc = "trace_wait"]
            /\ UNCHANGED <<handles, sessions>>
       ELSE recv_events(x, op[x].id)
    /\ UNCHANGED <<CONTEXT_SWITCH_LOCK, percpu_vars, now, next_id>>

(* ptrace::send_event: the traced context x reports an event; the tracer
   that waits for it is unblocked *)
send_event(x) ==
    /\ UNCHANGED list_vars
    /\ InUser(x)
    /\ x \in DOMAIN sessions
    /\ Len(sessions[x]) < MaxQueued
    /\ \A y \in DOMAIN op : InTraceWait(y, x) => ~Locked(y)
    /\ sessions' = [sessions EXCEPT ![x] = Append(@, x)]
    /\ contexts' = [y \in DOMAIN contexts |->
                       IF InTraceWait(y, x) THEN unblock_no_ipi(contexts[y])
                       ELSE contexts[y]]
    /\ UNCHANGED <<CONTEXT_SWITCH_LOCK, percpu_vars, now, handles, next_id, op>>

(* SpecWait: one CPU with its timer; the tracer holds trace handle 0 of
   the tracee, opened without O_NONBLOCK, and reads it; a third context
   that shares the handle writes or closes it.  The tracee is stopped (as
   an open with O_TRUNC leaves it) or runs.  The timer keeps ticking,
   every step of switch() that stays possible is taken, a context that is
   dispatched again and again takes its next step, a call that spins on
   self.handles gets the lock if it is free again and again, and a tracee
   that runs reports an event. *)
Helper == Target + 2

InitWait ==
    \E stopped \in BOOLEAN :
        /\ contexts =
              (IdleOf(0) :> [IdleContext(0) EXCEPT !.running = FALSE])
              @@ (Target :> [NewContext(Target) EXCEPT !.running = TRUE, !.cpu_id = {0}])
              @@ (Tracee :> [NewContext(Tracee) EXCEPT !.ppid = Target,
                                                       !.ptrace_stop = stopped])
              @@ (Helper :> NewContext(Helper))
        /\ CONTEXT_SWITCH_LOCK = FALSE
        /\ context_id = [cpu \in Cpus |-> IF cpu = 0 THEN Target ELSE 0]
        /\ idle_id = [cpu \in Cpus |-> IF cpu = 0 THEN IdleOf(0) ELSE 0]
        /\ pit_ticks = [cpu \in Cpus |-> 0]
        /\ switch_result = [cpu \in Cpus |-> {}]
        /\ cpu_pc = [cpu \in Cpus |-> IF cpu = 0 THEN "run" ELSE "off"]
        /\ cand = [cpu \in Cpus |-> <<>>]
        /\ switch_time = [cpu \in Cpus |-> 0]
        /\ switch_context_opt = [cpu \in Cpus |-> {}]
        /\ now = 0
        /\ op = [id \in {IdleOf(0), Target, Tracee, Helper} |-> [pc |-> "user"]]
        /\ handles = (0 :> [pid |-> Tracee,
                            flags |-> IF stopped THEN {"O_TRUNC"} ELSE {},
                            operation |-> "Trace", clones |-> {}])
        /\ next_id = 1
        /\ sessions = (Tracee :> <<>>)
        /\ NoDebug
        /\ Schemes

\* The third context never blocks and never exits, so a switch() entered from
\* the idle context always finds it: SwitchNoCandidate cannot occur here.
WaitNext ==
    \/ \E cpu \in Cpus : tick(cpu)
    \/ \E cpu \in Cpus : SwitchAcquire(cpu)
    \/ \E cpu \in Cpus : SwitchExamine(cpu)
    \/ \E cpu \in Cpus : SwitchCommit(cpu)
    \/ \E cpu \in Cpus : switch_finish_hook(cpu)
    \/ TraceWait(Target, 0)
    \/ TraceSleep(Target)
    \/ TraceWake(Target)
    \/ send_event(Tracee)
    \/ \E name \in {"kwrite", "close"} : HandlesSpin(Helper, name, 0)
    \/ \E x \in {Target, Helper} : kwrite(x, 0, FALSE, <<0>>)
    \/ close(Helper, 0)
    \/ \E x \in UserIds : SysReturn(x)

FairWait ==
    /\ \A cpu \in Cpus :
          /\ WF_vars(tick(cpu))
          /\ SF_vars(SwitchAcquire(cpu))
          /\ WF_vars(SwitchExamine(cpu))
          /\ WF_vars(SwitchCommit(cpu))
          /\ WF_vars(switch_finish_hook(cpu))
    /\ SF_vars(TraceSleep(Target))
    /\ SF_vars(TraceWake(Target))
    /\ SF_vars(send_event(Tracee))
    /\ SF_vars(op[Helper].pc = "handles" /\ kwrite(Helper, 0, FALSE, <<0>>))
    /\ SF_vars(op[Helper].pc = "handles" /\ close(Helper, 0))
    /\ \A x \in {Target, Helper} : SF_vars(SysReturn(x))

SpecWait == InitWait /\ [][WaitNext]_vars /\ FairWait

(* SpecDeliver: two CPUs with their timers, two user contexts that start
   with signals queued; a context whose handler has run returns from it
   through sigreturn and is restored by the scheduler. *)
Queues == {<<>>, <<1>>, <<1, 2>>, <<2, 1>>}

InitDeliver ==
    \E queue \in [Target .. (Target + SmpUsers - 1) -> Queues] :
        /\ contexts = [id \in IdleIds \cup (Target .. (Target + SmpUsers - 1)) |->
                          IF id \in IdleIds
                          THEN IdleContext(CHOOSE cpu \in Cpus : IdleOf(cpu) = id)
                          ELSE [NewContext(id) EXCEPT !.pending = queue[id]]]
        /\ CONTEXT_SWITCH_LOCK = FALSE
        /\ context_id = [cpu \in Cpus |-> IdleOf(cpu)]
        /\ idle_id = [cpu \in Cpus |-> IdleOf(cpu)]
        /\ pit_ticks = [cpu \in Cpus |-> 0]
        /\ switch_result = [cpu \in Cpus |-> {}]
        /\ cpu_pc = [cpu \in Cpus |-> "run"]
        /\ cand = [cpu \in Cpus |-> <<>>]
        /\ switch_time = [cpu \in Cpus |-> 0]
        /\ switch_context_opt = [cpu \in Cpus |-> {}]
        /\ now = 0
        /\ op = [id \in IdleIds \cup (Target .. (Target + SmpUsers - 1)) |->
                    [pc |-> "user"]]
        /\ handles = <<>>
        /\ next_id = 0
        /\ Schemes
        /\ NoSessions
        /\ NoDebug

DeliverNext ==
    \/ SchedNext
    \/ \E x \in UserIds : sigreturn(x)
    \/ \E x \in UserIds : SigResume(x)

SpecDeliver == InitDeliver /\ [][DeliverNext]_vars

(* SpecAffinity: two contexts on two CPUs; each has a sched-affinity
   handle open on it.  The first context writes them and the second reads
   them. *)
AffinityWords == {0, 1, 2, U32_MAX, U32_MAX + 1, USIZE_MAX}

InitAffinity ==
    /\ Boot(Cpus, Target .. (Target + SmpUsers - 1))
    /\ handles = (0 :> Info(Target, {}, "SchedAffinity"))
                  @@ (1 :> Info(Target + 1, {}, "SchedAffinity"))
    /\ next_id = 2
    /\ NoSessions
    /\ NoDebug
    /\ Schemes

AffinityNext ==
    \/ SchedNext
    \/ \E id \in 0 .. 1, k \in AffinityWords : kwrite(Target, id, FALSE, <<k>>)
    \/ \E id \in 0 .. 1 : kread(Target + 1, id)
    \/ \E x \in UserIds : SysReturn(x)

SpecAffinity == InitAffinity /\ [][AffinityNext]_vars

TickNext == SchedNext \/ Advance

SpecTick == InitTick /\ [][TickNext]_vars

(***************************************************************************)
(* Properties.                                                             *)
(***************************************************************************)
UpCpus == {cpu \in Cpus : cpu_pc[cpu] # "off"}

(* The CPUs between the successful compare-exchange and the release. *)
Switching == {cpu \in Cpus : cpu_pc[cpu] \in {"scan", "commit", "hook"}}

(* C1: each context is dispatched on at most one CPU: no context id is the
   current id of two CPUs, and the context switch() has selected is not
   running. *)
C1_DispatchedOnce ==
    /\ \A c1 \in UpCpus : \A c2 \in UpCpus \ {c1} : context_id[c1] # context_id[c2]
    /\ \A id \in DOMAIN contexts :
          Cardinality({cpu \in UpCpus : context_id[cpu] = id /\ contexts[id].running}) <= 1
    /\ \A cpu \in Cpus : \A o \in switch_context_opt[cpu] : ~contexts[o.next].running

(* C1 witness: both CPUs run user contexts. *)
C1_Witness ==
    /\ \A cpu \in Cpus : cpu_pc[cpu] = "run" /\ context_id[cpu] \in UserIds
    /\ \A cpu \in Cpus : contexts[context_id[cpu]].running

(* C2: at most one CPU is between the successful compare-exchange on
   CONTEXT_SWITCH_LOCK and its release; while one is, the flag is set and
   no other CPU examines candidates. *)
C2_SwitchExclusive ==
    /\ Cardinality(Switching) <= 1
    /\ Switching # {} => CONTEXT_SWITCH_LOCK
    /\ \A cpu \in Cpus \ Switching : cand[cpu] = <<>> /\ switch_context_opt[cpu] = {}

(* C2 witness: one CPU examines candidates while another spins on the flag. *)
C2_Witness ==
    \E c1 \in Cpus : \E c2 \in Cpus \ {c1} :
        cpu_pc[c1] = "scan" /\ cand[c1] # <<>> /\ cpu_pc[c2] = "spin"

(* C3: a switch() that has returned has released CONTEXT_SWITCH_LOCK: the
   flag is set only while some CPU is inside the switch that set it. *)
C3_ReleasedOnReturn ==
    CONTEXT_SWITCH_LOCK => \E cpu \in Cpus : cpu_pc[cpu] \in {"scan", "commit", "hook"}

(* C3 witness: switches have completed (a CPU runs a user context, another
   found no candidate or is back in its idle context) and no CPU is inside
   switch(). *)
C3_Witness ==
    /\ \A cpu \in Cpus : cpu_pc[cpu] = "run"
    /\ \E cpu \in Cpus : context_id[cpu] \in UserIds
    /\ \E cpu \in Cpus : context_id[cpu] = idle_id[cpu] /\ pit_ticks[cpu] = 0
    /\ ~CONTEXT_SWITCH_LOCK

(* C4: when switch() is about to return true (the registers are swapped,
   switch_finish_hook runs), the CPU's current context id is the id of the
   context update_runnable accepted in this call, and that context is
   running, runnable, not stopped and eligible for the CPU. *)
C4_CurrentIsSelected ==
    \A cpu \in Cpus :
        cpu_pc[cpu] = "hook" =>
            /\ switch_result[cpu] # {}
            /\ \A r \in switch_result[cpu] :
                  /\ context_id[cpu] = r.next
                  /\ contexts[r.next].running
                  /\ is_runnable(contexts[r.next].status)
                  /\ ~Ineligible([contexts[r.next] EXCEPT !.running = FALSE], cpu)

(* C4 witness: a switch to a user context is about to return true. *)
C4_Witness ==
    \E cpu \in Cpus : cpu_pc[cpu] = "hook" /\ \E r \in switch_result[cpu] : r.next \in UserIds

(* C5: on one CPU whose tick counter starts at 0, the first two tick() calls
   only increment the counter; switch() is entered by the third, which
   resets the counter to 0; and when the switch leaves a user context while
   the other user context is runnable and eligible, that context (not idle)
   is dispatched. *)
C5_ThirdTickSwitches ==
    [][ \A cpu \in Cpus :
          /\ (cpu_pc[cpu] = "run" /\ pit_ticks[cpu] < 2 /\ pit_ticks'[cpu] # pit_ticks[cpu])
                => /\ pit_ticks'[cpu] = pit_ticks[cpu] + 1
                   /\ UNCHANGED <<cpu_pc, contexts, context_id, CONTEXT_SWITCH_LOCK>>
          /\ (cpu_pc[cpu] = "run" /\ cpu_pc'[cpu] # "run")
                => /\ pit_ticks[cpu] = 2
                   /\ pit_ticks'[cpu] = 0
                   /\ cpu_pc'[cpu] = "spin"
          /\ (cpu_pc[cpu] = "commit" /\ cpu_pc'[cpu] = "hook")
                => \A o \in switch_context_opt[cpu] :
                      /\ pit_ticks'[cpu] = 0
                      /\ \A b \in (UserIds \cap DOMAIN contexts) \ {o.prev} :
                            ( /\ o.prev \in UserIds
                              /\ is_runnable(contexts[b].status)
                              /\ ~Ineligible(contexts[b], cpu) )
                            => (context_id'[cpu] = b /\ contexts'[b].running) ]_vars

(* C5 witness: the third tick of a user context has dispatched the other
   user context and the counter is 0. *)
C5_Witness ==
    \E cpu \in Cpus :
        /\ cpu_pc[cpu] = "hook"
        /\ pit_ticks[cpu] = 0
        /\ \E r \in switch_result[cpu] :
              /\ r.prev \in UserIds
              /\ r.next \in UserIds
              /\ context_id[cpu] = r.next
              /\ ~contexts[r.prev].running

(* C6: a context whose ptrace_stop flag is set is neither selected by the
   loop of switch() nor goes from not running to running. *)
C6_StoppedNotDispatched ==
    [][ /\ \A cpu \in Cpus :
              \A o \in switch_context_opt'[cpu] \ switch_context_opt[cpu] :
                  ~contexts[o.next].ptrace_stop
        /\ \A id \in DOMAIN contexts :
              (~contexts[id].running /\ contexts'[id].running)
                  => (~contexts[id].ptrace_stop /\ ~contexts'[id].ptrace_stop) ]_vars

(* C6 witness: the loop of switch() has examined and passed over a context
   that is stopped by ptrace, is blocked with a pending signal, and would
   have been woken and accepted by update_runnable but for the flag. *)
C6_Witness ==
    \E cpu \in Cpus : \E id \in UserIds \cap DOMAIN contexts :
        /\ cpu_pc[cpu] \in {"scan", "commit"}
        /\ id # context_id[cpu]
        /\ \A i \in 1 .. Len(cand[cpu]) : cand[cpu][i] # id
        /\ contexts[id].ptrace_stop
        /\ is_soft_blocked(contexts[id].status)
        /\ contexts[id].pending # <<>>
        /\ update_runnable([contexts[id] EXCEPT !.ptrace_stop = FALSE], cpu, now).ret

(* C7: the assertion of try_stop_context, "!context.running", never fails. *)
C7_AssertionHolds == \A x \in DOMAIN op : op[x].pc # "panic"

(* C8: when no try_stop_context call on a live context is in progress, its
   ptrace_stop has the value it had before the calls began.  The flag is
   false initially and set by nothing but try_stop_context. *)
C8_StopRestored ==
    \A pid \in DOMAIN contexts :
        ( /\ contexts[pid].status # "Exited"
          /\ \A x \in DOMAIN op :
                 /\ op[x].pc \notin {"panic", "trace_resume"}
                 /\ op[x].pc \in {"ts_switch", "ts_check", "ts_final"} => op[x].pid # pid )
        => ~contexts[pid].ptrace_stop

(* C9: a context whose status is Exited is not selected by switch(), and no
   proc: operation changes its state. *)
C9_ExitedUntouched ==
    [][ /\ \A cpu \in Cpus :
              \A o \in switch_context_opt'[cpu] \cup switch_result'[cpu] :
                  contexts'[o.next].status # "Exited"
        /\ \A pid \in DOMAIN contexts :
              (contexts[pid].status = "Exited" /\ op' # op)
                  => contexts'[pid] = contexts[pid] ]_vars

(* C10: a read, write or dup that begins when the status of the context its
   handle names is Exited fails. *)
C10_ExitedOpsFail ==
    [][ \A x \in DOMAIN op :
          ( /\ op[x].pc = "user"
            /\ op'[x].pc = "ret"
            /\ handles' = handles
            /\ handles # <<>>
            /\ \A id \in DOMAIN handles :
                   /\ handles[id].pid \in DOMAIN contexts
                   /\ contexts[handles[id].pid].status = "Exited" )
          => op'[x].res # "OK" ]_vars

(* The names of a sequence are pairwise distinct. *)
Distinct(names) == \A i, j \in 1 .. Len(names) : i # j => names[i] # names[j]

(* Every name of the sequence is bound, in namespace ns, to a registered scheme. *)
AllBound(l, ns, names) == \A i \in 1 .. Len(names) : get_name(l, ns, names[i]) # {}

(* C14: make_ns(parent, names) succeeds whenever every listed name is bound
   in parent and the names are pairwise distinct, and returns a fresh
   namespace in which each listed name is bound as in parent; it fails with
   ENODEV when a listed name is not bound in parent and with EEXIST when a
   name is listed twice. *)
C14_MakeNsCopies ==
    ret.call = "make_ns" =>
        /\ (AllBound(ret.before, ret.from, ret.names) /\ Distinct(ret.names))
              => /\ ret.res.ok
                 /\ ret.res.val \notin DOMAIN ret.before.names
                 /\ ret.res.val \in DOMAIN list.names
                 /\ \A i \in 1 .. Len(ret.names) :
                       /\ ret.names[i] \in DOMAIN list.names[ret.res.val]
                       /\ list.names[ret.res.val][ret.names[i]]
                              = ret.before.names[ret.from][ret.names[i]]
        /\ (~AllBound(ret.before, ret.from, ret.names) /\ Distinct(ret.names))
              => ret.res = Err("ENODEV")
        /\ (AllBound(ret.before, ret.from, ret.names) /\ ~Distinct(ret.names))
              => ret.res = Err("EEXIST")

(* C15: after remove(id) on a registered scheme, get(id) is none, no
   namespace binds a name to id, and every binding to another scheme id, in
   every namespace, is as it was; the other schemes stay registered. *)
C15_RemoveUnbinds ==
    ret.call = "remove" =>
        /\ get(list, ret.id) = {}
        /\ DOMAIN list.names = DOMAIN ret.before.names
        /\ \A ns \in DOMAIN list.names :
              /\ \A name \in DOMAIN list.names[ns] :
                    /\ list.names[ns][name] # ret.id
                    /\ name \in DOMAIN ret.before.names[ns]
                    /\ list.names[ns][name] = ret.before.names[ns][name]
              /\ \A name \in DOMAIN ret.before.names[ns] :
                    ret.before.names[ns][name] # ret.id
                        => name \in DOMAIN list.names[ns]
        /\ \A id \in DOMAIN ret.before.map \ {ret.id} : get(list, id) = get(ret.before, id)

(* C15 witness: the removed scheme was bound in two namespaces, one of them
   made by make_ns, and other names stay bound there. *)
C15_Witness ==
    /\ ret.call = "remove"
    /\ \E n1 \in DOMAIN ret.before.names : \E n2 \in DOMAIN ret.before.names :
          /\ n1 < n2
          /\ n2 > 1
          /\ \E name \in DOMAIN ret.before.names[n1] : ret.before.names[n1][name] = ret.id
          /\ \E name \in DOMAIN ret.before.names[n2] : ret.before.names[n2][name] = ret.id
          /\ list.names[n2] # EmptyMap

(* The id the search of insert_and_pass starts from. *)
SearchStart(l) == IF l.next_id >= SCHEME_MAX_SCHEMES THEN 1 ELSE l.next_id

(* C16 as stated: a successful insert returns an id that is at least 1, is
   not in use, and is below the ceiling SCHEME_MAX_SCHEMES. *)
C16_IdBelowCeiling ==
    (ret.call = "insert" /\ ret.res.ok) =>
        /\ ret.res.val >= 1
        /\ ret.res.val \notin DOMAIN ret.before.map
        /\ ret.res.val < SCHEME_MAX_SCHEMES

(* C16, amended: a successful insert returns an id that is at least 1 and
   not in use; it is the first free id from the counter on or, once the
   counter has reached the ceiling SCHEME_MAX_SCHEMES, from 1 on, and the
   counter is left one above it; the id reaches the ceiling only when every
   id from the start of the search up to the ceiling is in use. *)
C16_FirstFreeId ==
    (ret.call = "insert" /\ ret.res.ok) =>
        /\ ret.res.val >= 1
        /\ ret.res.val \notin DOMAIN ret.before.map
        /\ ret.res.val >= SearchStart(ret.before)
        /\ \A id \in SearchStart(ret.before) .. (ret.res.val - 1) : id \in DOMAIN ret.before.map
        /\ list.next_id = ret.res.val + 1
        /\ get(list, ret.res.val) # {}
        /\ ret.res.val >= SCHEME_MAX_SCHEMES
              => \A id \in SearchStart(ret.before) .. (SCHEME_MAX_SCHEMES - 1) :
                    id \in DOMAIN ret.before.map

(* C16 witness: the counter had reached the ceiling, the search wrapped and
   took an id that had been freed. *)
C16_Witness ==
    /\ ret.call = "insert"
    /\ ret.res.ok
    /\ ret.before.next_id >= SCHEME_MAX_SCHEMES
    /\ ret.res.val < SCHEME_MAX_SCHEMES - 1

(* C17: calc_seek_offset(cur, rel, whence, len) returns rel for SEEK_SET
   whenever rel >= 0; for SEEK_CUR (SEEK_END) it returns cur + rel
   (len + rel) when that sum is an unsigned machine word and EOVERFLOW
   exactly when it is not; any other whence returns EINVAL. *)
C17_SeekOffset ==
    ret.call = "calc_seek_offset" =>
        /\ (ret.whence = SEEK_SET /\ ret.rel_pos >= 0) => ret.res = Ok(ret.rel_pos)
        /\ ret.whence = SEEK_CUR =>
              /\ ret.cur_pos + ret.rel_pos \in USize <=> ret.res = Ok(ret.cur_pos + ret.rel_pos)
              /\ ret.cur_pos + ret.rel_pos \notin USize <=> ret.res = Err("EOVERFLOW")
        /\ ret.whence = SEEK_END =>
              /\ ret.len + ret.rel_pos \in USize <=> ret.res = Ok(ret.len + ret.rel_pos)
              /\ ret.len + ret.rel_pos \notin USize <=> ret.res = Err("EOVERFLOW")
        /\ ret.whence \notin {SEEK_SET, SEEK_CUR, SEEK_END} => ret.res = Err("EINVAL")

(* C17 witness: a seek backwards from the current position, the carry of
   the unsigned addition set, returns the smaller offset. *)
C17_Witness ==
    /\ ret.call = "calc_seek_offset"
    /\ ret.whence = SEEK_CUR
    /\ ret.rel_pos < 0
    /\ ret.cur_pos + ret.rel_pos > 0
    /\ ret.res = Ok(ret.cur_pos + ret.rel_pos)

(* C12: for every context, ksig_restore implies that the saved signal
   frame ksig is present. *)
C12_RestoreHasFrame ==
    \A id \in DOMAIN contexts : contexts[id].ksig_restore => contexts[id].ksig # {}

(* C12 witness: a context that has asked for the restore waits, switched
   out, with its frame saved, while a switch() examines candidates. *)
C12_Witness ==
    \E id \in DOMAIN contexts : \E cpu \in Cpus :
        /\ contexts[id].ksig_restore
        /\ contexts[id].ksig # {}
        /\ ~contexts[id].running
        /\ cpu_pc[cpu] = "scan"

(* C13 as stated: ksig_restore is cleared only by a switch() that executes
   on a CPU other than the one on which the context raised the signal, and
   a context is not dispatched with the flag set. *)
C13_RestoredOnOtherCpu ==
    [][ \A pid \in DOMAIN contexts :
          /\ (contexts[pid].ksig_restore /\ ~contexts'[pid].ksig_restore)
                => \E cpu \in Cpus :
                      /\ cpu_pc[cpu] = "scan"
                      /\ cand[cpu] # <<>>
                      /\ Head(cand[cpu]) = pid
                      /\ cand'[cpu] # cand[cpu]
                      /\ contexts[pid].cpu_id # {cpu}
          /\ (~contexts[pid].running /\ contexts'[pid].running)
                => (~contexts[pid].ksig_restore /\ ~contexts'[pid].ksig_restore) ]_vars

(* C13, amended: ksig_restore is cleared only by a switch() that executes
   in another context, on the CPU on which the context raised the signal,
   while the context is not running; the saved frame is taken in the same
   step, so the flag is cleared once for each time it was set; and a
   context is not dispatched with the flag set. *)
C13_RestoredByOtherContext ==
    [][ \A pid \in DOMAIN contexts :
          /\ (contexts[pid].ksig_restore /\ ~contexts'[pid].ksig_restore)
                => /\ \E cpu \in Cpus :
                         /\ cpu_pc[cpu] = "scan"
                         /\ cand[cpu] # <<>>
                         /\ Head(cand[cpu]) = pid
                         /\ cand'[cpu] # cand[cpu]
                         /\ context_id[cpu] # pid
                         /\ contexts[pid].cpu_id = {cpu}
                   /\ ~contexts[pid].running
                   /\ contexts[pid].ksig # {}
                   /\ contexts'[pid].ksig = {}
          /\ (~contexts[pid].ksig_restore /\ contexts'[pid].ksig_restore)
                => (contexts[pid].running /\ contexts[pid].ksig # {})
          /\ (~contexts[pid].running /\ contexts'[pid].running)
                => (~contexts[pid].ksig_restore /\ ~contexts'[pid].ksig_restore) ]_vars

(* C13 witness: a context that returned from its signal handler has been
   restored and is dispatched again, while the other CPU runs the other
   user context. *)
C13_Witness ==
    \E x \in UserIds \cap DOMAIN contexts : \E y \in (UserIds \cap DOMAIN contexts) \ {x} :
        /\ Executing(x)
        /\ op[x].pc = "sigreturn"
        /\ contexts[x].running
        /\ ~contexts[x].ksig_restore
        /\ contexts[x].ksig = {}
        /\ Executing(y)

(* The finished kopen calls of x on the numeric path of a context other
   than x that is in the list and has not exited, for an operation that
   needs_child_process. *)
OpenedOther(x) ==
    /\ x \in DOMAIN op
    /\ op[x].pc = "ret"
    /\ "call" \in DOMAIN op[x]
    /\ op[x].call.name = "kopen"
    /\ ParsePid(op[x].call.pid_str) # {}
    /\ \A pid \in ParsePid(op[x].call.pid_str) :
          /\ pid # x
          /\ pid \in DOMAIN contexts
          /\ contexts[pid].status # "Exited"
    /\ \A operation \in ParseOperation(op[x].call.operation_str) :
          needs_child_process(operation)
    /\ ParseOperation(op[x].call.operation_str) # {}

(* The target of such a call. *)
OpenTarget(x) == contexts[CHOOSE pid \in ParsePid(op[x].call.pid_str) : TRUE]

(* The call asked for a trace session on a target that had one. *)
SessionBusy(x) ==
    /\ op[x].call.operation_str = "trace"
    /\ "id" \in DOMAIN op[x]
    /\ \E id \in DOMAIN handles :
          /\ id < op[x].id
          /\ handles[id].operation = "Trace"
          /\ handles[id].pid = OpenTarget(x).id

Owns(x, target) ==
    contexts[x].euid = target.euid \/ contexts[x].egid = target.egid

IsAncestor(x, target) == x \in ancestors(contexts, target.ppid, {})

IsRoot(x) == contexts[x].euid = 0 /\ contexts[x].egid = 0

(* C18 as stated: through the Restricted instance, every handle made by
   open, or by dup from an open_via_dup handle, has the id of the calling
   context as its pid, and a path that names a context by its number is
   refused with EACCES. *)
C18_OnlyCaller ==
    access = "Restricted" =>
        \A x \in DOMAIN op :
            (op[x].pc = "ret" /\ "call" \in DOMAIN op[x]) =>
                /\ ("id" \in DOMAIN op[x] /\ op[x].id \in DOMAIN handles)
                      => handles[op[x].id].pid = x
                /\ (op[x].call.name = "kopen"
                        /\ op[x].call.pid_str \notin {"current", "new"})
                      => op[x].res = "EACCES"

(* C18, amended: through the Restricted instance, a handle made by open
   addresses the calling context or, for the path new, the context this
   open has spawned as a child of the caller; a handle made by dup from an
   open_via_dup handle addresses the context of that handle; and a path
   that names a context by its number is refused with EACCES and makes no
   handle. *)
C18_CallerOrChild ==
    access = "Restricted" =>
        \A x \in DOMAIN op :
            (op[x].pc = "ret" /\ "call" \in DOMAIN op[x]) =>
                /\ (op[x].call.name = "kopen" /\ "id" \in DOMAIN op[x]
                        /\ op[x].id \in DOMAIN handles)
                      => LET pid == handles[op[x].id].pid
                         IN  \/ op[x].call.pid_str = "current" /\ pid = x
                             \/ /\ op[x].call.pid_str = "new"
                                /\ pid # x
                                /\ pid \in DOMAIN contexts
                                /\ contexts[pid].ppid = x
                /\ (op[x].call.name = "kdup" /\ "id" \in DOMAIN op[x]
                        /\ op[x].id \in DOMAIN handles)
                      => /\ op[x].call.old_id \in DOMAIN handles
                         /\ handles[op[x].call.old_id].operation = "OpenViaDup"
                         /\ handles[op[x].id].pid = handles[op[x].call.old_id].pid
                /\ (op[x].call.name = "kopen"
                        /\ op[x].call.pid_str \notin {"current", "new"})
                      => (op[x].res = "EACCES" /\ "id" \notin DOMAIN op[x])

(* C18 witness: through the Restricted instance a context has made, by dup
   from an open_via_dup handle that its child had opened on itself, a
   handle on the registers of the child. *)
C18_Witness ==
    /\ access = "Restricted"
    /\ \E x \in DOMAIN op :
          /\ op[x].pc = "ret"
          /\ "call" \in DOMAIN op[x]
          /\ op[x].call.name = "kdup"
          /\ op[x].res = "OK"
          /\ handles[op[x].id].operation = "Regs(Int)"
          /\ handles[op[x].id].pid # x
          /\ contexts[handles[op[x].id].pid].ppid = x

(* C19 as stated: the open of a needs-child operation on another context
   succeeds when the caller has the uid and gid of the target, or when it
   is an ancestor of the target, and always for root. *)
C19_OwnerOrAncestor ==
    \A x \in DOMAIN op :
        ( /\ OpenedOther(x)
          /\ ~SessionBusy(x)
          /\ \/ ( /\ contexts[x].euid = OpenTarget(x).euid
                  /\ contexts[x].egid = OpenTarget(x).egid )
             \/ IsAncestor(x, OpenTarget(x))
             \/ IsRoot(x) )
        => op[x].res = "OK"

(* C19, amended: the open of a needs-child operation on another, live
   context succeeds when the caller has the uid or the gid of the target
   and is also an ancestor of the target, and always for root (only a
   second trace session on a target is refused, with EBUSY); for a caller
   whose uid and gid are both not 0, neither owning the target without
   being its ancestor nor being its ancestor without owning it suffices:
   the open fails with EPERM. *)
C19_OwnerAndAncestor ==
    \A x \in DOMAIN op :
        OpenedOther(x) =>
            /\ ((Owns(x, OpenTarget(x)) /\ IsAncestor(x, OpenTarget(x))) \/ IsRoot(x))
                  => op[x].res = IF SessionBusy(x) THEN "EBUSY" ELSE "OK"
            /\ ( /\ contexts[x].euid # 0
                 /\ contexts[x].egid # 0
                 /\ ~(Owns(x, OpenTarget(x)) /\ IsAncestor(x, OpenTarget(x))) )
                  => (op[x].res = "EPERM" /\ "id" \notin DOMAIN op[x])

(* C19 witness: a caller that is not root, owns the target by its gid only
   and is its parent has opened the target's trace. *)
C19_Witness ==
    \E x \in DOMAIN op :
        /\ OpenedOther(x)
        /\ op[x].call.operation_str = "trace"
        /\ op[x].res = "OK"
        /\ contexts[x].euid # 0
        /\ contexts[x].egid # 0
        /\ contexts[x].euid # OpenTarget(x).euid
        /\ contexts[x].egid = OpenTarget(x).egid
        /\ OpenTarget(x).ppid = x
        /\ handles[op[x].id].pid = OpenTarget(x).id

(* C20: for every caller that is not root (uid 0 and gid 0), the open of
   regs/int on a context that the caller does not own and of which it is
   not an ancestor returns EPERM. *)
C20_StrangerRefused ==
    \A x \in DOMAIN op :
        ( /\ OpenedOther(x)
          /\ op[x].call.operation_str = "regs/int"
          /\ ~IsRoot(x)
          /\ ~Owns(x, OpenTarget(x))
          /\ ~IsAncestor(x, OpenTarget(x)) )
        => op[x].res = "EPERM"

(* C11 as stated: whatever is done to a proc: handle between its open and
   its close, its operation variant stays the one it was given at open. *)
C11_OperationNeverChanges ==
    [][ \A id \in DOMAIN handles \cap DOMAIN handles' :
          handles'[id].operation = handles[id].operation ]_vars

(* C11, amended: the operation variant of a proc: handle stays the one
   given at open under read, fcntl, dup and close, and under write except
   for one case: a successful write to a current-filetable,
   current-addrspace or current-sigactions handle stores the awaiting
   variant of the same kind with the reference the written descriptor
   names, and that is the variant close observes and applies.  The pid of
   a handle never changes. *)
C11_OperationChangesOnlyToAwaiting ==
    [][ \A id \in DOMAIN handles \cap DOMAIN handles' :
          /\ handles'[id].pid = handles[id].pid
          /\ \/ handles'[id].operation = handles[id].operation
             \/ /\ handles[id].operation = "CurrentFiletable"
                /\ handles'[id].operation = "AwaitingFiletableChange"
             \/ /\ handles[id].operation = "CurrentAddrSpace"
                /\ handles'[id].operation = "AwaitingAddrSpaceChange"
             \/ /\ handles[id].operation = "CurrentSigactions"
                /\ handles'[id].operation = "AwaitingSigactionsChange"
          /\ ( /\ handles[id].operation \in {"CurrentFiletable", "CurrentAddrSpace",
                                              "CurrentSigactions"}
               /\ handles'[id] # handles[id]
               /\ handles'[id].flags = handles[id].flags )
                => /\ handles'[id].operation # handles[id].operation
                   /\ \E number \in DOMAIN handles :
                         /\ handles[number].operation = Resource(handles[id].operation)
                         /\ handles'[id].arc = handles[number].arc
                   /\ \E x \in DOMAIN op : op[x].pc = "user" /\ op'[x].pc = "ret"
                                              /\ op'[x].res = "OK" ]_vars

(* C11 witness: a handle opened as current-filetable has been written and
   closed, and the close has given its context the file table of the other
   context. *)
C11_Witness ==
    \E pid \in DOMAIN contexts : \E other \in DOMAIN contexts \ {pid} :
        /\ contexts[pid].files = other
        /\ contexts[other].files = other
        /\ \A id \in DOMAIN handles : handles[id].operation = "Filetable"
        /\ \E x \in DOMAIN op : op[x].pc = "ret" /\ op[x].res = "OK"

(* The entry point and address space of a context. *)
Entry(context) == <<context.addr_space, context.iret, context.clone_entry>>

(* Context x finishes, in this step, the close of a current-addrspace handle
   on context pid that holds a written change. *)
ClosesAddrSpace(x, pid) ==
    /\ op[x].pc \in {"user", "ts_final"}
    /\ op'[x].pc = "ret"
    /\ op'[x].res = "OK"
    /\ "call" \in DOMAIN op'[x]
    /\ op'[x].call.name = "close"
    /\ op'[x].call.pid = pid

(* The change `awaiting` has been applied to the context. *)
Swapped(before, after, awaiting) ==
    /\ after.addr_space = awaiting.new
    /\ \/ /\ after.iret = {[ip |-> awaiting.new_ip, sp |-> awaiting.new_sp]}
          /\ after.clone_entry = before.clone_entry
       \/ /\ after.clone_entry = {<<awaiting.new_ip, awaiting.new_sp>>}
          /\ after.iret = before.iret

(* C21 as stated: the address space and the entry point of a context change
   in no step but the close of a written current-addrspace handle on it,
   the context is not running in that step, and the close leaves it with
   the address space the written descriptor names and with ip and sp in the
   trap frame or in clone_entry. *)
C21_SwapAtCloseNotRunning ==
    [][ \A pid \in DOMAIN contexts :
          /\ Entry(contexts'[pid]) # Entry(contexts[pid])
                => \E x \in DOMAIN op : ClosesAddrSpace(x, pid)
          /\ \A x \in DOMAIN op :
                ClosesAddrSpace(x, pid)
                    => /\ ~contexts[pid].running
                       /\ Swapped(contexts[pid], contexts'[pid], op'[x].call.awaiting) ]_vars

(* C21, amended: the address space and the entry point of a context change
   in no step but the close of a written current-addrspace handle on it;
   in that step the context is not running or is the closing context
   itself; the close leaves it with the address space the written
   descriptor names and with ip and sp in the trap frame or in clone_entry;
   the write stores the address space of the descriptor, sp and ip in the
   handle and changes no context. *)
C21_SwapAtClose ==
    [][ /\ \A pid \in DOMAIN contexts :
              /\ Entry(contexts'[pid]) # Entry(contexts[pid])
                    => \E x \in DOMAIN op : ClosesAddrSpace(x, pid)
              /\ \A x \in DOMAIN op :
                    ClosesAddrSpace(x, pid)
                        => /\ ~contexts[pid].running \/ pid = x
                           /\ Swapped(contexts[pid], contexts'[pid], op'[x].call.awaiting)
        /\ \A id \in DOMAIN handles \cap DOMAIN handles' :
              ( /\ handles[id].operation = "CurrentAddrSpace"
                /\ handles'[id] # handles[id] )
                  => \E x \in DOMAIN op :
                        /\ op[x].pc = "user"
                        /\ op'[x].pc = "ret"
                        /\ op'[x].call.name = "kwrite"
                        /\ contexts' = contexts
                        /\ handles[op'[x].call.buf[1]].operation = "AddrSpace"
                        /\ handles'[id].operation = "AwaitingAddrSpaceChange"
                        /\ handles'[id].arc = handles[op'[x].call.buf[1]].arc
                        /\ handles'[id].new_sp = op'[x].call.buf[2]
                        /\ handles'[id].new_ip = op'[x].call.buf[3]
        /\ \A x \in DOMAIN op : \A id \in DOMAIN handles \ DOMAIN handles' :
              ( /\ op[x].pc = "user"
                /\ handles[id].operation = "AwaitingAddrSpaceChange"
                /\ op'[x].pc = "ret" )
                  => /\ x = handles[id].pid
                     /\ op'[x].res = "OK"
                     /\ ClosesAddrSpace(x, x)
                     /\ op'[x].call.awaiting = [new |-> handles[id].arc,
                                                new_sp |-> handles[id].new_sp,
                                                new_ip |-> handles[id].new_ip] ]_vars

(* C21 witness: a context has closed the written current-addrspace handle of
   another context; that context is stopped, has the new address space and
   enters at the written ip and sp. *)
C21_Witness ==
    \E x \in DOMAIN op :
        /\ op[x].pc = "ret"
        /\ op[x].res = "OK"
        /\ "call" \in DOMAIN op[x]
        /\ op[x].call.name = "close"
        /\ op[x].call.pid # x
        /\ op[x].call.awaiting = [new |-> NewArc(1), new_sp |-> 2, new_ip |-> 1]
        /\ contexts[op[x].call.pid].addr_space = NewArc(1)
        /\ contexts[op[x].call.pid].iret = {[ip |-> 1, sp |-> 2]}
        /\ ~contexts[op[x].call.pid].running

(* A trace handle is closed in this step. *)
ClosedTrace == {id \in DOMAIN handles \ DOMAIN handles' : handles[id].operation = "Trace"}

(* C22: the close of a trace handle closes the session of its pid, queues
   SIGKILL for the target when the handle was opened with O_EXCL (handle 0
   was), and leaves the target's ptrace_stop false. *)
C22_CloseEndsTrace ==
    [][ \A id \in ClosedTrace :
          LET pid == handles[id].pid
          IN  /\ pid \notin DOMAIN sessions'
              /\ id = 0 => contexts'[pid].pending = Append(contexts[pid].pending, SIGKILL)
              /\ ~contexts'[pid].ptrace_stop ]_vars

(* The word the writer's finished write of the affinity of pid stored. *)
AffinityWritten(pid) ==
    {op[Target].call.buf[1] : id \in
        {id \in DOMAIN handles :
            /\ handles[id].pid = pid
            /\ handles[id].operation = "SchedAffinity"
            /\ op[Target].pc = "ret"
            /\ op[Target].res = "OK"
            /\ op[Target].call.name = "kwrite"
            /\ op[Target].call.id = id}}

(* The reader's read of handle id returns in this step. *)
ReadsAffinity(id) ==
    /\ op[Target + 1].pc = "user"
    /\ op'[Target + 1].pc = "ret"
    /\ op'[Target + 1].res = "OK"
    /\ op'[Target + 1].call = [name |-> "kread", id |-> id]

(* C23: a read of sched-affinity after a write of u32::MAX yields
   usize::MAX, and after a write of any other k yields k mod cpu_count. *)
C23_AffinityRoundTrip ==
    [][ \A id \in DOMAIN handles : \A k \in AffinityWritten(handles[id].pid) :
          ReadsAffinity(id) =>
            op'[Target + 1].buf[1] = IF k = U32_MAX THEN USIZE_MAX ELSE k % cpu_count ]_vars

(* A read of debug: by x returns in this step, at once or after a wait. *)
ReadReturns(x) ==
    /\ op[x].pc \in {"user", "wait_retry"}
    /\ op'[x].pc = "ret"
    /\ "buf" \in DOMAIN op'[x]

(* C24: a read of debug: returns the bytes at the front of the queue in
   the order debug_input queued them, no more than the buffer holds, and
   takes them out of the queue, and nothing else takes a byte out; a read
   on a handle without O_NONBLOCK returns only when a byte is queued, and a
   read on a handle with O_NONBLOCK never waits. *)
C24_DebugRead ==
    [][ /\ \A x \in DOMAIN op :
              (ReadReturns(x) /\ op'[x].res = "OK") =>
                  LET count == Len(op'[x].buf)
                  IN  /\ count <= op'[x].len
                      /\ count = op'[x].len \/ count = Len(INPUT)
                      /\ op'[x].buf = SubSeq(INPUT, 1, count)
                      /\ INPUT' = SubSeq(INPUT, count + 1, Len(INPUT))
        /\ INPUT' # INPUT =>
              \/ \E data \in Bytes : INPUT' = Append(INPUT, data)
              \/ \E x \in DOMAIN op :
                    /\ ReadReturns(x) /\ op'[x].res = "OK"
                    /\ \A y \in DOMAIN op \ {x} : op'[y] = op[y]
        /\ \A x \in DOMAIN op :
              (/\ ReadReturns(x)
               /\ op[x].pc = "user" => "O_NONBLOCK" \notin HANDLES[op'[x].id].flags)
                  => (op'[x].res = "OK" /\ INPUT # <<>>)
        /\ \A x \in DOMAIN op :
              (op[x].pc = "user" /\ op'[x].pc = "wait_switch")
                  => "O_NONBLOCK" \notin HANDLES[op'[x].id].flags ]_vars

(* a read that may block, into a buffer of 4 bytes, has returned H, i *)
C24_Witness ==
    \E x \in DOMAIN op :
        /\ op[x].pc = "ret"
        /\ "buf" \in DOMAIN op[x]
        /\ op[x].block
        /\ op[x].len = 4
        /\ op[x].buf = <<72, 105>>

(* The ptrace_stop flag of pid goes from true to false in this step. *)
Released(pid) ==
    /\ pid \in DOMAIN contexts
    /\ contexts[pid].ptrace_stop
    /\ ~contexts'[pid].ptrace_stop

(* A write on a trace handle of pid returns in this step: one that resumes
   at once, or one that has stopped the target first to set singlestep. *)
TraceWritten(pid) ==
    /\ DOMAIN handles' = DOMAIN handles
    /\ \A id \in DOMAIN handles :
          \/ handles'[id] = handles[id]
          \/ /\ handles[id].operation = "Trace"
             /\ handles'[id] = [handles[id] EXCEPT !.clones = {}]
    /\ \E x \in DOMAIN op :
          /\ op'[x].pc = "ret"
          /\ \/ /\ op[x].pc = "user"
                /\ \E id \in DOMAIN handles :
                      handles[id].operation = "Trace" /\ handles[id].pid = pid
             \/ op[x].pc = "trace_resume" /\ op[x].pid = pid

(* A trace handle of pid is closed in this step. *)
TraceClosed(pid) == \E id \in ClosedTrace : handles[id].pid = pid

(* switch_finish_hook runs in this step. *)
HookUnwinds == \E cpu \in Cpus : cpu_pc[cpu] = "hook" /\ cpu_pc'[cpu] = "run"

(* A trace handle that has read the clone event of pid is closed or
   written in this step (the write drains its clone list), and pid is not
   traced itself. *)
CloneContinued(pid) ==
    /\ pid \notin DOMAIN sessions
    /\ \/ \E id \in ClosedTrace : pid \in handles[id].clones
       \/ \E id \in DOMAIN handles \cap DOMAIN handles' :
             /\ handles[id].operation = "Trace"
             /\ pid \in handles[id].clones
             /\ handles'[id].clones = {}

(* try_stop_context puts back the value it found in pid in this step. *)
StopRestored(pid) ==
    \E x \in DOMAIN op :
        /\ op[x].pc = "ts_final"
        /\ op'[x].pc # "ts_final"
        /\ op[x].pid = pid
        /\ ~op[x].was_stopped

(* C25 as stated: ptrace_stop goes from true to false only in a write or a
   close on a trace handle of the context or in switch_finish_hook. *)
C25_ReleasedByTracerOnly ==
    [][ \A pid \in DOMAIN contexts :
          Released(pid) => (TraceWritten(pid) \/ TraceClosed(pid) \/ HookUnwinds) ]_vars

(* C25: ptrace_stop goes from true to false only in a write or a close on a
   trace handle of the context, in the close of or a write on a trace
   handle that has read the clone event of the untraced context, in
   try_stop_context when
   it puts back the false it found, or in switch_finish_hook. *)
C25_ReleasedOnlyBy ==
    [][ \A pid \in DOMAIN contexts :
          Released(pid) =>
              \/ TraceWritten(pid)
              \/ TraceClosed(pid)
              \/ CloneContinued(pid)
              \/ StopRestored(pid)
              \/ HookUnwinds ]_vars

(* a released context under each of the four causes: the tracee after a
   write and after a close, the clone after the close of its parent's
   handle, the tracee after a regs/int call on an unstopped target *)
C25_Witness ==
    /\ ~contexts[Clone].ptrace_stop
    /\ ~contexts[Tracee].ptrace_stop
    /\ 0 \notin DOMAIN handles
    /\ \E x \in DOMAIN op : op[x].pc = "ret" /\ op[x].res = "OK"

(* No CPU is inside switch(). *)
Quiescent == \A cpu \in UpCpus : cpu_pc[cpu] \in {"run", "halt"}

(* C26: in every state in which no CPU is inside switch(), the current
   context of each CPU is running with cpu_id that CPU, and every running
   context is the current context of exactly one CPU. *)
C26_CurrentIsRunning ==
    Quiescent =>
        /\ \A cpu \in UpCpus :
              /\ contexts[context_id[cpu]].running
              /\ contexts[context_id[cpu]].cpu_id = {cpu}
        /\ \A id \in DOMAIN contexts :
              contexts[id].running =>
                  Cardinality({cpu \in UpCpus : context_id[cpu] = id}) = 1

(* C26 witness: no CPU is inside switch(), both run user contexts that
   were dispatched by a switch, and an idle context is switched out. *)
C26_Witness ==
    /\ Quiescent
    /\ \A cpu \in Cpus : cpu_pc[cpu] = "run" /\ context_id[cpu] \in UserIds
    /\ \E id \in IdleIds : ~contexts[id].running

(* The order of C27 for the calling context current: the ids above it,
   then the ids below it, neither with the idle context, then the idle
   context unless it is the caller. *)
SelectionOrder(ids, current, idle) ==
    Ascending({i \in ids \ {idle} : i > current})
        \o Ascending({i \in ids \ {idle} : i < current})
        \o (IF idle \in ids \ {current} THEN <<idle>> ELSE <<>>)

(* C27: switch() examines the contexts in the order (ids above the
   current id, ascending), (ids below it, ascending), then the idle context,
   which is left out where its id comes; the calling context is never
   examined; the first context for which update_runnable returns true is
   selected, and none when there is no such context. *)
C27_SelectionOrder ==
    [][ \A cpu \in Cpus :
          /\ (cpu_pc[cpu] = "spin" /\ cpu_pc'[cpu] = "scan") =>
                /\ cand'[cpu] = SelectionOrder(DOMAIN contexts, context_id[cpu], idle_id[cpu])
                /\ \A i \in 1 .. Len(cand'[cpu]) : cand'[cpu][i] # context_id[cpu]
          /\ (cpu_pc[cpu] = "scan" /\ cand[cpu] # <<>>
                /\ <<cpu_pc[cpu], cand[cpu]>> # <<cpu_pc'[cpu], cand'[cpu]>>) =>
                IF update_runnable(contexts[Head(cand[cpu])], cpu, now).ret
                THEN /\ cpu_pc'[cpu] = "commit"
                     /\ switch_context_opt'[cpu] =
                            {[prev |-> context_id[cpu], next |-> Head(cand[cpu])]}
                ELSE /\ cpu_pc'[cpu] = "scan"
                     /\ cand'[cpu] = Tail(cand[cpu])
                     /\ switch_context_opt'[cpu] = {}
          /\ (cpu_pc[cpu] = "scan" /\ cand[cpu] = <<>> /\ cpu_pc'[cpu] # "scan") =>
                /\ cpu_pc'[cpu] = "run"
                /\ context_id'[cpu] = context_id[cpu] ]_vars

(* C27 witness: a user context has called switch(); the other user context
   and the idle context of the other CPU were examined and refused, and the
   idle context of the CPU is selected last. *)
C27_Witness ==
    \E cpu \in Cpus :
        /\ cpu_pc[cpu] = "commit"
        /\ \E o \in switch_context_opt[cpu] :
              /\ o.prev \in UserIds
              /\ o.next = idle_id[cpu]
              /\ \E id \in UserIds \ {o.prev} : id \in DOMAIN contexts

(* The contexts that take turns on the boot CPU: runnable, not frozen,
   allowed there. *)
Round ==
    {id \in UserIds :
        /\ is_runnable(contexts[id].status)
        /\ ~contexts[id].ptrace_stop
        /\ 0 \in contexts[id].sched_affinity}

(* the next of the set after id in cyclic ascending order *)
Successor(set, id) ==
    IF \E i \in set : i > id
    THEN CHOOSE i \in set : i > id /\ \A j \in set : j > id => i <= j
    ELSE CHOOSE i \in set : \A j \in set : i <= j

(* switch() on the boot CPU commits to a switch in this step. *)
Dispatches(prev, next) ==
    /\ cpu_pc[0] = "commit"
    /\ cpu_pc'[0] = "hook"
    /\ switch_context_opt[0] = {[prev |-> prev, next |-> next]}

(* C28 as stated: whatever the number of contexts that take turns, every
   switch dispatches the successor of the previous context in their cyclic
   ascending order, and never the idle context. *)
C28_RoundRobinAny ==
    [][ \A prev \in DOMAIN contexts, next \in DOMAIN contexts :
          (Dispatches(prev, next) /\ Round # {}) => next = Successor(Round, prev) ]_vars

(* C28: when two or more contexts take turns, every switch dispatches the
   successor of the previous context in their cyclic ascending order, and
   never the idle context. *)
C28_RoundRobin ==
    [][ \A prev \in DOMAIN contexts, next \in DOMAIN contexts :
          (Dispatches(prev, next) /\ Cardinality(Round) >= 2) =>
              next = Successor(Round, prev) ]_vars

(* C28 witness: three contexts take turns and the last of them has handed
   the CPU to the first. *)
C28_Witness ==
    /\ Cardinality(Round) = NumUsers
    /\ cpu_pc[0] = "hook"
    /\ \E r \in switch_result[0] :
          /\ r.prev = NumCpus + NumUsers
          /\ r.next = NumCpus + 1

(* A CPU is inside switch(). *)
InSwitch(cpu) == cpu_pc[cpu] \in {"spin", "prev", "scan", "commit", "hook"}

(* C29: every switch() returns: a CPU that is inside switch(), spinning on
   CONTEXT_SWITCH_LOCK or holding it, is eventually outside again, also
   when the timer interrupt that called it arrived while the context
   interrupted held a context lock. *)
C29_SwitchTerminates ==
    \A cpu \in Cpus : InSwitch(cpu) ~> (cpu_pc[cpu] = "run")

(* A context is inside try_stop_context. *)
InTryStop(x) == op[x].pc \in {"ts_switch", "ts_check", "ts_final"}

(* C30: under fair ticking every call of try_stop_context returns: with the
   result of its callback once the target is not running, or with ESRCH
   when the target has exited. *)
C30_TryStopReturns ==
    \A x \in Target .. (Target + SmpUsers - 1) : InTryStop(x) ~> (op[x].pc = "ret")

(* C31: while the tracer is blocked in a read of the trace handle, a write
   or a close on the handle by another context completes: a call that
   has started and waits for the handle table returns. *)
C31_OthersComplete == (op[Helper].pc = "handles") ~> (op[Helper].pc = "ret")

(* The guards CPU cpu holds on a selected pair of contexts. *)
Guards(cpu) == switch_context_opt[cpu] \cup switch_result[cpu]

(* The steps of one switch() on cpu in the order of the code. *)
SwitchStep(cpu) ==
    \/ cpu_pc'[cpu] = cpu_pc[cpu]
    \/ cpu_pc[cpu] = "run" /\ cpu_pc'[cpu] = "spin"
    \* outside switch() the CPU is stopped by a panic
    \/ cpu_pc[cpu] = "run" /\ cpu_pc'[cpu] = "halt"
    \* CONTEXT_SWITCH_LOCK is taken and the previous context is locked
    \/ /\ cpu_pc[cpu] = "spin" /\ cpu_pc'[cpu] = "scan"
       /\ ~CONTEXT_SWITCH_LOCK /\ CONTEXT_SWITCH_LOCK'
       /\ Guards(cpu) = {} /\ Guards(cpu)' = {}
    \* a candidate is locked after the previous context and selected
    \/ /\ cpu_pc[cpu] = "scan" /\ cpu_pc'[cpu] = "commit"
       /\ cand[cpu] # <<>>
       /\ switch_context_opt'[cpu] = {[prev |-> context_id[cpu], next |-> Head(cand[cpu])]}
       /\ switch_result'[cpu] = {}
       /\ context_id'[cpu] = context_id[cpu]
    \* the registers are swapped with both guards stored
    \/ /\ cpu_pc[cpu] = "commit" /\ cpu_pc'[cpu] = "hook"
       /\ switch_result'[cpu] = switch_context_opt[cpu]
       /\ switch_context_opt'[cpu] = {}
       /\ \E o \in switch_context_opt[cpu] :
             context_id[cpu] = o.prev /\ context_id'[cpu] = o.next
    \* switch_finish_hook drops the guards and releases the flag
    \/ /\ cpu_pc[cpu] = "hook" /\ cpu_pc'[cpu] = "run"
       /\ switch_result[cpu] # {}
       /\ Guards(cpu)' = {}
       /\ CONTEXT_SWITCH_LOCK /\ ~CONTEXT_SWITCH_LOCK'
    \* no candidate passed
    \/ /\ cpu_pc[cpu] = "scan" /\ cpu_pc'[cpu] = "run"
       /\ Guards(cpu) = {} /\ Guards(cpu)' = {}

(* While cpu holds the guards of a pair, only its own commit writes the
   two contexts. *)
GuardsRespected(cpu) ==
    \A o \in Guards(cpu) : \A id \in {o.prev, o.next} :
        contexts'[id] # contexts[id] => cpu_pc[cpu] = "commit" /\ cpu_pc'[cpu] = "hook"

(* C32: a switch() locks the previous context, then the candidates, then
   swaps the registers with both guards stored, and only
   switch_finish_hook drops the guards and releases CONTEXT_SWITCH_LOCK;
   from the selection to the hook the guards are held and the flag is
   set, nothing else writes the two contexts, and the hook finds
   switch_result present. *)
C32_SwitchOrder ==
    /\ [](\A cpu \in Cpus :
            /\ cpu_pc[cpu] = "commit" => Cardinality(switch_context_opt[cpu]) = 1
            /\ cpu_pc[cpu] = "hook" => Cardinality(switch_result[cpu]) = 1
            /\ cpu_pc[cpu] \in {"run", "spin", "scan", "off", "halt"} => Guards(cpu) = {}
            /\ cpu_pc[cpu] \in {"scan", "commit", "hook"} => CONTEXT_SWITCH_LOCK)
    /\ [][\A cpu \in Cpus : SwitchStep(cpu) /\ GuardsRespected(cpu)]_vars

(* C32 witness: a switch between two user contexts has swapped the
   registers and is about to run switch_finish_hook with both guards. *)
C32_Witness ==
    \E cpu \in Cpus :
        /\ cpu_pc[cpu] = "hook"
        /\ \E r \in switch_result[cpu] :
              /\ r.prev \in UserIds
              /\ r.next \in UserIds
              /\ context_id[cpu] = r.next
              /\ contexts[r.next].running
              /\ ~contexts[r.prev].running
        /\ CONTEXT_SWITCH_LOCK


(***************************************************************************)
(* C33: signal delivery at commit.  When switch() commits to a context     *)
(* that has no signal in flight and a non-empty pending queue, exactly the *)
(* front signal leaves the queue and ksig becomes the snapshot of the      *)
(* registers taken before the handler frame is set up, together with that  *)
(* signal; when ksig is present the commit leaves the queue and ksig       *)
(* alone.  A signal in flight is never replaced by another one, and the    *)
(* queue shrinks only at its front and only at a delivery, so the signals  *)
(* are delivered one at a time in the order of the queue.                  *)
(***************************************************************************)
Selected(id) ==
    \E cpu \in Cpus :
        /\ cpu_pc[cpu] = "commit"
        /\ cpu_pc'[cpu] = "hook"
        /\ \E o \in switch_context_opt[cpu] : o.next = id

C33_DeliveryAtCommit ==
    [][\A id \in DOMAIN contexts :
        /\ (Selected(id) /\ contexts[id].ksig = {} /\ contexts[id].pending # <<>>)
            => /\ contexts'[id].pending = Tail(contexts[id].pending)
               /\ contexts'[id].ksig = {[arch |-> contexts[id].arch,
                                         sig |-> Head(contexts[id].pending)]}
        /\ (Selected(id) /\ contexts[id].ksig # {})
            => /\ contexts'[id].pending = contexts[id].pending
               /\ contexts'[id].ksig = contexts[id].ksig
        /\ (contexts[id].ksig # {} /\ contexts'[id].ksig # {})
            => contexts'[id].ksig = contexts[id].ksig
        /\ Cardinality(contexts'[id].ksig) <= 1
        /\ (Len(contexts'[id].pending) < Len(contexts[id].pending))
            => /\ Selected(id)
               /\ contexts[id].ksig = {}
               /\ contexts'[id].pending = Tail(contexts[id].pending)]_vars

(* the second signal of the queue <<1, 2>> is in flight, after the first was
   delivered and its handler returned, while the other context was
   dispatched with a signal in flight and one still queued *)
C33_Witness ==
    /\ contexts[Target].ksig = {[arch |-> {}, sig |-> 2]}
    /\ contexts[Target].pending = <<>>
    /\ contexts[Target].arch = signal_stack(2)
    /\ contexts[Target].running
    /\ contexts[Target + 1].ksig # {}
    /\ contexts[Target + 1].pending # <<>>
    /\ contexts[Target + 1].running


(***************************************************************************)
(* C34: wake deadlines.  Examines(cpu, id) is the step of the loop of      *)
(* switch() on cpu that applies update_runnable to context id.             *)
(***************************************************************************)
Examines(cpu, id) ==
    /\ cpu_pc[cpu] = "scan"
    /\ cand[cpu] # <<>>
    /\ Head(cand[cpu]) = id
    /\ cand'[cpu] # cand[cpu]

SelectedBy(cpu, id) ==
    \E o \in switch_context_opt'[cpu] \ switch_context_opt[cpu] : o.next = id

Sleeping(context) ==
    /\ is_soft_blocked(context.status)
    /\ context.wake # {}
    /\ context.pending = <<>>

Due(context) == \E wake \in context.wake : now >= wake

(* C34 as stated: a soft-blocked context with a wake deadline and no pending
   signals is not selected while now < wake and keeps its wake value; once
   now >= wake the next update_runnable on an eligible CPU clears wake and
   unblocks it, so that it is selected; a soft-blocked context with pending
   signals is unblocked whatever its deadline. *)
C34_WakeDeadline ==
    [][\A cpu \in Cpus : \A id \in DOMAIN contexts :
        /\ (Sleeping(contexts[id]) /\ ~Due(contexts[id]))
            => /\ ~SelectedBy(cpu, id)
               /\ contexts'[id].wake = contexts[id].wake
        /\ (Sleeping(contexts[id]) /\ Due(contexts[id])
                /\ Examines(cpu, id) /\ ~Ineligible(contexts[id], cpu))
            => /\ contexts'[id].wake = {}
               /\ is_runnable(contexts'[id].status)
               /\ SelectedBy(cpu, id)
        /\ (is_soft_blocked(contexts[id].status) /\ contexts[id].pending # <<>>
                /\ Examines(cpu, id) /\ ~Ineligible(contexts[id], cpu))
            => /\ is_runnable(contexts'[id].status)
               /\ SelectedBy(cpu, id)]_vars

(* C34 amended: the same for a context that is not waiting for the restore
   after a signal handler (ksig_restore false); the restore unblocks a
   context before its deadline and leaves wake set. *)
C34_WakeDeadlineNoRestore ==
    [][\A cpu \in Cpus : \A id \in DOMAIN contexts :
        /\ (Sleeping(contexts[id]) /\ ~contexts[id].ksig_restore /\ ~Due(contexts[id]))
            => /\ ~SelectedBy(cpu, id)
               /\ contexts'[id].wake = contexts[id].wake
        /\ (Sleeping(contexts[id]) /\ ~contexts[id].ksig_restore /\ Due(contexts[id])
                /\ Examines(cpu, id) /\ ~Ineligible(contexts[id], cpu))
            => /\ contexts'[id].wake = {}
               /\ is_runnable(contexts'[id].status)
               /\ SelectedBy(cpu, id)
        /\ (is_soft_blocked(contexts[id].status) /\ contexts[id].pending # <<>>
                /\ Examines(cpu, id) /\ ~Ineligible(contexts[id], cpu))
            => /\ is_runnable(contexts'[id].status)
               /\ SelectedBy(cpu, id)]_vars

(* the idle context runs because the sleeping context was passed over before
   its deadline; the deadline has come and the loop is about to examine the
   sleeping context on an eligible CPU *)
C34_Witness ==
    \E cpu \in Cpus : \E id \in UserIds \cap DOMAIN contexts :
        /\ context_id[cpu] = idle_id[cpu]
        /\ cpu_pc[cpu] = "scan"
        /\ cand[cpu] # <<>>
        /\ Head(cand[cpu]) = id
        /\ Sleeping(contexts[id])
        /\ ~contexts[id].ksig_restore
        /\ Due(contexts[id])
        /\ ~Ineligible(contexts[id], cpu)


(***************************************************************************)
(* C35: switch() on a CPU never dispatches a context whose affinity set    *)
(* excludes that CPU, and a context that has been dispatched on a CPU      *)
(* (cpu_id set) is never dispatched on another one: cpu_id, once set,      *)
(* keeps its value.                                                        *)
(***************************************************************************)
DispatchedOn(cpu, id) ==
    /\ cpu_pc[cpu] = "commit"
    /\ cpu_pc'[cpu] = "hook"
    /\ \E o \in switch_context_opt[cpu] : o.next = id

C35_AffinityAndPin ==
    [][\A id \in DOMAIN contexts :
        /\ \A cpu \in Cpus :
              DispatchedOn(cpu, id)
                  => /\ cpu \in contexts[id].sched_affinity
                     /\ cpu \in contexts'[id].sched_affinity
                     /\ \A x \in contexts[id].cpu_id : x = cpu
                     /\ contexts'[id].cpu_id = {cpu}
                     /\ context_id'[cpu] = id
        /\ contexts[id].cpu_id # {} => contexts'[id].cpu_id = contexts[id].cpu_id]_vars

(* a user context whose affinity was narrowed to CPU 1 by a write has been
   dispatched there, while the other user context, which is pinned to
   CPU 0, is runnable and waits for that CPU *)
C35_Witness ==
    \E id \in UserIds \cap DOMAIN contexts :
        /\ cpu_pc[1] = "hook"
        /\ context_id[1] = id
        /\ contexts[id].sched_affinity = {1}
        /\ contexts[id].cpu_id = {1}
        /\ \E other \in (UserIds \cap DOMAIN contexts) \ {id} :
              /\ contexts[other].cpu_id = {0}
              /\ ~contexts[other].running
              /\ is_runnable(contexts[other].status)


(***************************************************************************)
(* C36: a switch() that finds no candidate returns false and has changed   *)
(* neither the CPU's current context id, nor the running flag or cpu_time  *)
(* of the current context, nor the running flag of any other context; no   *)
(* registers are swapped and switch_result stays empty.  Every step of the *)
(* call, from its entry to the return, leaves these alone: the steps are   *)
(* those of a CPU that is in switch() and has not selected a context.      *)
(***************************************************************************)
NotSelecting(cpu) ==
    /\ cpu_pc[cpu] \in {"run", "spin", "scan"}
    /\ cpu_pc'[cpu] \in {"spin", "scan", "run"}
    /\ cpu_pc'[cpu] # cpu_pc[cpu] \/ cand'[cpu] # cand[cpu]

ReturnsFalse(cpu) == cpu_pc[cpu] = "scan" /\ cpu_pc'[cpu] = "run"

C36_NoCandidateFrame ==
    [][\A cpu \in Cpus :
        /\ NotSelecting(cpu)
            => /\ context_id'[cpu] = context_id[cpu]
               /\ contexts'[context_id[cpu]].running = contexts[context_id[cpu]].running
               /\ contexts'[context_id[cpu]].cpu_time = contexts[context_id[cpu]].cpu_time
               /\ contexts'[context_id[cpu]].arch = contexts[context_id[cpu]].arch
               /\ \A id \in DOMAIN contexts :
                     contexts'[id].running = contexts[id].running
               /\ switch_result[cpu] = {}
               /\ switch_result'[cpu] = {}
               /\ switch_context_opt'[cpu] = {}
        /\ ReturnsFalse(cpu)
            => /\ cand[cpu] = <<>>
               /\ CONTEXT_SWITCH_LOCK
               /\ ~CONTEXT_SWITCH_LOCK'
               /\ contexts'[context_id[cpu]].running]_vars

(* the idle context, dispatched at time 0, called switch() at time 1, found
   both user contexts blocked and is about to return false; had it been
   switched out its cpu_time would grow by 1 *)
C36_Witness ==
    \E cpu \in Cpus :
        /\ cpu_pc[cpu] = "scan"
        /\ cand[cpu] = <<>>
        /\ context_id[cpu] = idle_id[cpu]
        /\ switch_time[cpu] > contexts[context_id[cpu]].switch_time
        /\ \A id \in UserIds \cap DOMAIN contexts :
              ~contexts[id].running /\ ~is_runnable(contexts[id].status)


(***************************************************************************)
(* C37: after any insert, insert_and_pass, make_ns or remove, successful   *)
(* or not, every name bound in any namespace refers to a scheme id that is *)
(* present in the map.                                                     *)
(***************************************************************************)
C37_BindingsRegistered ==
    \A ns \in DOMAIN list.names : \A name \in DOMAIN list.names[ns] :
        /\ get(list, list.names[ns][name]) # {}
        /\ get_name(list, ns, name) = {list.names[ns][name]}

(* a scheme made by SchemeList::new() was removed while it was bound, and a
   later insert has given its id to a new scheme under a new name *)
C37_Witness ==
    /\ ret.call = "insert"
    /\ ret.res.ok
    /\ ret.res.val \in DOMAIN SchemeListNew.map
    /\ ret.res.val \notin DOMAIN ret.before.map
    /\ \E ns \in DOMAIN SchemeListNew.names : \E name \in DOMAIN SchemeListNew.names[ns] :
          /\ SchemeListNew.names[ns][name] = ret.res.val
          /\ name \notin DOMAIN list.names[ns]
    /\ list.names[ret.ns][ret.name] = ret.res.val


(***************************************************************************)
(* C39: a make_ns that fails, with ENODEV or with EEXIST, leaves the list  *)
(* as it was: no new namespace, no new scheme, no new binding, and both    *)
(* counters at their old values.                                           *)
(***************************************************************************)
C39_MakeNsFailureLeavesList ==
    (ret.call = "make_ns" /\ ~ret.res.ok) =>
        /\ DOMAIN list.names = DOMAIN ret.before.names
        /\ list.names = ret.before.names
        /\ list.map = ret.before.map
        /\ list.next_ns = ret.before.next_ns
        /\ list.next_id = ret.before.next_id

(***************************************************************************)
(* C40: an insert (insert_and_pass) that fails, with EEXIST or with        *)
(* ENODEV, leaves the list as it was; in particular the scheme the factory *)
(* made is not left in the map without a name.                             *)
(***************************************************************************)
C40_InsertFailureLeavesList ==
    (ret.call = "insert" /\ ~ret.res.ok) =>
        /\ list.map = ret.before.map
        /\ list.names = ret.before.names
        /\ list.next_ns = ret.before.next_ns
        /\ list.next_id = ret.before.next_id


(***************************************************************************)
(* C38: an open of a trace handle that fails with EBUSY, because the       *)
(* target already has a session, leaves the handle table as it was (no     *)
(* handle stays allocated for the failed open) and does not touch the      *)
(* ptrace_stop flag of the target.                                         *)
(***************************************************************************)
ReturnsBusy(x) ==
    /\ op[x].pc = "user"
    /\ op'[x].pc = "ret"
    /\ op'[x].res = "EBUSY"

C38_BusyOpenLeavesHandles ==
    [][\A x \in DOMAIN op :
        ReturnsBusy(x)
            => /\ handles' = handles
               /\ \A pid \in DOMAIN contexts :
                     contexts'[pid].ptrace_stop = contexts[pid].ptrace_stop]_vars

====
